---- MODULE Spec2Model ----
(***************************************************************************)
(* Verification model of the smart-research-assistant backend:             *)
(*   - TextChunker (app/services/chunker.py), with Python's object         *)
(*     identity of the metadata dicts made explicit (a heap of dicts);     *)
(*   - the ingestion pipeline (app/tasks/document_processing.py);          *)
(*   - context assembly and the answer modes (app/services/rag_service.py).*)
(* Strings are sequences of one-character strings.                         *)
(***************************************************************************)
EXTENDS Integers, Sequences, FiniteSets, TLC

VARIABLES
    \* ---- chunker ----
    chunk_size,       \* TextChunker.chunk_size
    chunk_overlap,    \* TextChunker.chunk_overlap
    text,             \* the text handed to chunk_text / text of page 1
    pages,            \* the pages handed to chunk_document_with_pages
    op,               \* which operation produced `chunks`
    chunks,           \* the returned list: [content, metadata, ref]
    run,              \* the position and the locals of a chunking call in progress
    \* ---- relational store, vector index, pipeline tasks ----
    documents,        \* committed Document rows, by document id
    chunk_rows,       \* committed Chunk rows
    index,            \* entries of the vector index collection
    next_id,          \* number of uuid4 values drawn by add_documents
    task,             \* the process_document task of each document
    faults,           \* number of failures injected so far (extractor, index, commit)
    deletion,         \* position of the delete_document request of each document
    call,             \* a direct call of a service method: its arguments and result
    \* ---- retrieval, context assembly, conversation turns ----
    top_k_context,    \* settings.top_k_context
    max_conversation_history,    \* settings.max_conversation_history
    conversations,    \* committed Conversation rows, by conversation id
    messages,         \* committed Message rows, in creation order
    clock,            \* datetime.utcnow()
    turn              \* the chat turn in progress

chunkerVars == <<chunk_size, chunk_overlap, text, pages, op, chunks, run>>
chunkerConfig == <<chunk_size, chunk_overlap>>
chunkerRun == <<text, pages, op, chunks, run>>
storeVars == <<documents, chunk_rows, index, next_id>>
pipelineVars == <<documents, chunk_rows, index, next_id, task, faults>>

ragVars == <<top_k_context, max_conversation_history, conversations, messages, clock, turn>>

vars == <<chunkerVars, pipelineVars, deletion, call, ragVars>>

(***************************************************************************)
(* Bounds of the input enumeration.                                        *)
(***************************************************************************)
MaxTokens == 5
MaxPages == 2
MaxFailingItem == 1
MaxFaults == 2
MaxCandidates == 3
MaxFragments == 2
MaxMessages == 2
MaxTexts == 2
MaxStoredTurns == 3
MaxStepTokens == 4

(***************************************************************************)
(* Character classes of the regular expressions and of str.strip().        *)
(***************************************************************************)
Whitespace == {" ", "\n"}
SentenceEndings == {".", "!", "?"}
Capitals == {"A"}

Max(S) == CHOOSE x \in S : \A y \in S : y <= x

RECURSIVE Flatten(_)
Flatten(ss) == IF ss = <<>> THEN <<>> ELSE Head(ss) \o Flatten(Tail(ss))

(***************************************************************************)
(* Input texts: concatenations of at most MaxTokens tokens.  Tokens put    *)
(* side by side without whitespace form one long sentence.                 *)
(***************************************************************************)
Tokens ==
    { <<"A", "a", ".">>,
      <<"A", "a", "a", "a", ".">>,
      <<"a", "a", ".">>,
      <<" ">>,
      <<"\n", "\n">> }

Texts == { Flatten(ts) : ts \in UNION { [1..n -> Tokens] : n \in 0..MaxTokens } }

\* chunk_size / chunk_overlap as read from the settings (config.py:73-74 has
\* no validator, so 0 overlap and overlap >= size are admissible values).
ChunkSizes == {6, 8}
ChunkOverlaps == {0, 2, 9}

(***************************************************************************)
(* str.strip()                                                             *)
(***************************************************************************)
RECURSIVE LStrip(_)
LStrip(s) ==
    IF s = <<>> THEN s
    ELSE IF Head(s) \in Whitespace THEN LStrip(Tail(s)) ELSE s

RECURSIVE RStrip(_)
RStrip(s) ==
    IF s = <<>> THEN s
    ELSE IF s[Len(s)] \in Whitespace THEN RStrip(SubSeq(s, 1, Len(s) - 1)) ELSE s

Strip(s) == RStrip(LStrip(s))

\* last index of the whitespace run that starts at i (i-1 when there is none)
RECURSIVE RunEnd(_, _)
RunEnd(s, i) ==
    IF i <= Len(s) /\ s[i] \in Whitespace THEN RunEnd(s, i + 1) ELSE i - 1

(***************************************************************************)
(* re.split(r'\n\s*\n', text): a match starts at a newline and, \s* being  *)
(* greedy, ends at the last newline of the whitespace run that follows.    *)
(***************************************************************************)
ParagraphBreakEnd(s, i) ==
    LET js == { j \in (i + 1)..RunEnd(s, i + 1) : s[j] = "\n" }
    IN  IF js = {} THEN 0 ELSE Max(js)

RECURSIVE ReSplitParagraphs(_, _, _)
ReSplitParagraphs(s, start, i) ==
    IF i > Len(s) THEN << SubSeq(s, start, Len(s)) >>
    ELSE IF s[i] = "\n" /\ ParagraphBreakEnd(s, i) # 0
         THEN << SubSeq(s, start, i - 1) >>
              \o ReSplitParagraphs(s, ParagraphBreakEnd(s, i) + 1,
                                      ParagraphBreakEnd(s, i) + 1)
         ELSE ReSplitParagraphs(s, start, i + 1)

StripAll(ps) == [k \in 1..Len(ps) |-> Strip(ps[k])]
NonEmpty(p) == p # <<>>

split_into_paragraphs(s) ==
    SelectSeq(StripAll(ReSplitParagraphs(s, 1, 1)), NonEmpty)

(***************************************************************************)
(* re.split(r'(?<=[.!?])\s+(?=[A-Z])', text): a match is a maximal         *)
(* whitespace run preceded by sentence punctuation and followed by a       *)
(* capital letter.                                                         *)
(***************************************************************************)
RECURSIVE ReSplitSentences(_, _, _)
ReSplitSentences(s, start, i) ==
    IF i > Len(s) THEN << SubSeq(s, start, Len(s)) >>
    ELSE IF /\ i > 1
            /\ s[i - 1] \in SentenceEndings
            /\ RunEnd(s, i) >= i
            /\ RunEnd(s, i) < Len(s)
            /\ s[RunEnd(s, i) + 1] \in Capitals
         THEN << SubSeq(s, start, i - 1) >>
              \o ReSplitSentences(s, RunEnd(s, i) + 1, RunEnd(s, i) + 1)
         ELSE ReSplitSentences(s, start, i + 1)

split_into_sentences(s) ==
    SelectSeq(StripAll(ReSplitSentences(s, 1, 1)), NonEmpty)

(***************************************************************************)
(* Python dicts are records; heap is the sequence of the dict objects      *)
(* alive during one call and a reference is an index into it.  A chunk     *)
(* under construction is [content, metadata], metadata being a reference.  *)
(***************************************************************************)
EmptyDict == <<>>
DictUpdate(d, new) == new @@ d

\* SentenceStep with the size test applied to the sentence alone
SentenceStepNoBufferLen(st, sentence, size, ref) ==
    IF Len(sentence) > size
    THEN [ chunks |-> IF st.temp_chunk # <<>>
                      THEN Append(st.chunks,
                                  [content |-> Strip(st.temp_chunk), metadata |-> ref])
                      ELSE st.chunks,
           temp_chunk |-> sentence ]
    ELSE [ chunks |-> st.chunks,
           temp_chunk |-> IF st.temp_chunk # <<>>
                          THEN st.temp_chunk \o <<" ">> \o sentence
                          ELSE sentence ]

\* the sentence loop of one over-long paragraph (chunker.py:96-105); the
\* chunks it emits all carry the reference `ref` of the caller's dict
SentenceStep(st, sentence, size, ref) ==
    IF Len(st.temp_chunk) + Len(sentence) > size
    THEN [ chunks |-> IF st.temp_chunk # <<>>
                      THEN Append(st.chunks,
                                  [content |-> Strip(st.temp_chunk), metadata |-> ref])
                      ELSE st.chunks,
           temp_chunk |-> sentence ]
    ELSE [ chunks |-> st.chunks,
           temp_chunk |-> IF st.temp_chunk # <<>>
                          THEN st.temp_chunk \o <<" ">> \o sentence
                          ELSE sentence ]

RECURSIVE SentenceLoop(_, _, _, _, _)
SentenceLoop(st, sentences, k, size, ref) ==
    IF k > Len(sentences) THEN st
    ELSE SentenceLoop(SentenceStep(st, sentences[k], size, ref), sentences, k + 1, size, ref)

\* temp_chunk[max(0, len(temp_chunk) - chunk_overlap):]
OverlapSeed(temp_chunk, overlap) ==
    LET overlap_start == IF Len(temp_chunk) - overlap > 0
                         THEN Len(temp_chunk) - overlap ELSE 0
    IN  SubSeq(temp_chunk, overlap_start + 1, Len(temp_chunk))

\* one iteration of the paragraph loop (chunker.py:76-117)
ParagraphStep(st, paragraph, size, overlap, ref) ==
    IF Len(st.current_chunk) + Len(paragraph) > size
    THEN LET flushed ==
                 IF st.current_chunk # <<>>
                 THEN [ chunks |-> Append(st.chunks,
                                          [content |-> Strip(st.current_chunk),
                                           metadata |-> Len(st.heap) + 1]),
                        heap |-> Append(st.heap,
                                        DictUpdate(st.heap[ref],
                                                   [paragraph_count |-> st.current_paragraphs])) ]
                 ELSE [ chunks |-> st.chunks, heap |-> st.heap ]
         IN  IF Len(paragraph) > size
             THEN LET done == SentenceLoop([chunks |-> flushed.chunks, temp_chunk |-> <<>>],
                                           split_into_sentences(paragraph), 1, size, ref)
                  IN  IF done.temp_chunk # <<>>
                      THEN [ chunks |-> done.chunks, heap |-> flushed.heap,
                             current_chunk |-> OverlapSeed(done.temp_chunk, overlap),
                             current_paragraphs |-> 1 ]
                      ELSE [ chunks |-> done.chunks, heap |-> flushed.heap,
                             current_chunk |-> st.current_chunk,
                             current_paragraphs |-> st.current_paragraphs ]
             ELSE [ chunks |-> flushed.chunks, heap |-> flushed.heap,
                    current_chunk |-> paragraph,
                    current_paragraphs |-> 1 ]
    ELSE [ chunks |-> st.chunks, heap |-> st.heap,
           current_chunk |-> IF st.current_chunk # <<>>
                             THEN st.current_chunk \o <<"\n", "\n">> \o paragraph
                             ELSE paragraph,
           current_paragraphs |-> st.current_paragraphs + 1 ]

RECURSIVE ParagraphLoop(_, _, _, _, _, _)
ParagraphLoop(st, paragraphs, k, size, overlap, ref) ==
    IF k > Len(paragraphs) THEN st
    ELSE ParagraphLoop(ParagraphStep(st, paragraphs[k], size, overlap, ref),
                       paragraphs, k + 1, size, overlap, ref)

\* TextChunker._create_chunks_from_paragraphs: returns the chunk list and
\* the heap with the dicts it allocated
create_chunks_from_paragraphs(heap, paragraphs, ref, size, overlap) ==
    LET st == ParagraphLoop([chunks |-> <<>>, heap |-> heap,
                             current_chunk |-> <<>>, current_paragraphs |-> 0],
                            paragraphs, 1, size, overlap, ref)
    IN  IF st.current_chunk # <<>>
        THEN [ chunks |-> Append(st.chunks,
                                 [content |-> Strip(st.current_chunk),
                                  metadata |-> Len(st.heap) + 1]),
               heap |-> Append(st.heap,
                               DictUpdate(st.heap[ref],
                                          [paragraph_count |-> st.current_paragraphs])) ]
        ELSE [ chunks |-> st.chunks, heap |-> st.heap ]

\* the index pass of chunk_text (chunker.py:174-177): the writes go, in
\* order, to whatever dict object each chunk refers to
RECURSIVE AddChunkIndices(_, _, _)
AddChunkIndices(heap, cs, i) ==
    IF i > Len(cs) THEN heap
    ELSE AddChunkIndices(
             [heap EXCEPT ![cs[i].metadata] =
                 DictUpdate(@, [chunk_index |-> i - 1,
                                total_chunks |-> Len(cs),
                                char_count |-> Len(cs[i].content)])],
             cs, i + 1)

\* the re-index pass of chunk_document_with_pages (chunker.py:218-220)
RECURSIVE ReIndex(_, _, _)
ReIndex(heap, cs, i) ==
    IF i > Len(cs) THEN heap
    ELSE ReIndex(
             [heap EXCEPT ![cs[i].metadata] =
                 DictUpdate(@, [chunk_index |-> i - 1, total_chunks |-> Len(cs)])],
             cs, i + 1)

MinTextLen == 10

TooShort(s) == s = <<>> \/ Len(Strip(s)) < MinTextLen

\* TextChunker.chunk_text on the dict object `ref` of `heap` as
\* source_metadata (`source_metadata or {}` allocates a new dict when the
\* caller's dict is empty)
chunk_text(heap, s, ref, size, overlap) ==
    IF TooShort(s) THEN [ chunks |-> <<>>, heap |-> heap ]
    ELSE LET heap1 == IF heap[ref] = EmptyDict THEN Append(heap, EmptyDict) ELSE heap
             metadata == IF heap[ref] = EmptyDict THEN Len(heap1) ELSE ref
             made == create_chunks_from_paragraphs(heap1, split_into_paragraphs(s),
                                                   metadata, size, overlap)
         IN  [ chunks |-> made.chunks,
               heap |-> AddChunkIndices(made.heap, made.chunks, 1) ]

\* the page loop of chunk_document_with_pages (chunker.py:200-215)
RECURSIVE PageLoop(_, _, _, _, _, _)
PageLoop(acc, ps, k, ref, size, overlap) ==
    IF k > Len(ps) THEN acc
    ELSE IF TooShort(ps[k].text)
         THEN PageLoop(acc, ps, k + 1, ref, size, overlap)
         ELSE LET heap1 == Append(acc.heap,
                                  DictUpdate(acc.heap[ref],
                                             [page_number |-> ps[k].page_number]))
                  page_chunks == chunk_text(heap1, ps[k].text, Len(heap1), size, overlap)
              IN  PageLoop([chunks |-> acc.chunks \o page_chunks.chunks,
                            heap |-> page_chunks.heap],
                           ps, k + 1, ref, size, overlap)

\* TextChunker.chunk_document_with_pages
chunk_document_with_pages(heap, ps, ref, size, overlap) ==
    LET all == PageLoop([chunks |-> <<>>, heap |-> heap], ps, 1, ref, size, overlap)
    IN  [ chunks |-> all.chunks, heap |-> ReIndex(all.heap, all.chunks, 1) ]

\* what the caller reads from the returned list: each chunk's content and
\* the current value of the dict it refers to
Returned(r) ==
    [ i \in 1..Len(r.chunks) |->
        [ content |-> r.chunks[i].content,
          metadata |-> r.heap[r.chunks[i].metadata],
          ref |-> r.chunks[i].metadata ] ]

\* the caller's source_metadata dict ({"source": "test"} in the tests)
SourceMetadata == [source |-> "test"]

\* a chunking call that has not started: the entry point, the position,
\* the page loop (pages, page, acc), the metadata reference, the paragraph
\* loop (paragraphs, k, st) and the sentence loop (sentences, j, sst)
IdleRun ==
    [mode |-> "none", pc |-> "idle",
     pages |-> <<>>, page |-> 0, acc |-> [chunks |-> <<>>, heap |-> <<>>],
     ref |-> 0,
     paragraphs |-> <<>>, k |-> 0,
     st |-> [chunks |-> <<>>, heap |-> <<>>, current_chunk |-> <<>>,
             current_paragraphs |-> 0],
     sentences |-> <<>>, j |-> 0,
     sst |-> [chunks |-> <<>>, temp_chunk |-> <<>>]]

(***************************************************************************)
(* Relational store, vector index and the SQLAlchemy session of a task.    *)
(***************************************************************************)
Docs == {"d1", "d2"}

NoDocument == [present |-> FALSE, processed |-> FALSE, doc_metadata |-> EmptyDict,
               source |-> EmptyDict]

\* a session: the Document object it loaded (EmptyDict when none), the
\* attributes whose assignment changed the loaded value, and the objects
\* added with db.add()
NoSession == [document |-> EmptyDict, loaded |-> EmptyDict, dirty |-> {}, new |-> <<>>]

\* result.scalar_one_or_none() of select(Document).where(Document.id == d)
SelectDocument(d) ==
    IF documents[d].present
    THEN [NoSession EXCEPT
            !.document = [processed |-> documents[d].processed,
                          doc_metadata |-> documents[d].doc_metadata],
            !.loaded = [processed |-> documents[d].processed,
                        doc_metadata |-> documents[d].doc_metadata]]
    ELSE NoSession

\* document.<attr> = value: the unit of work records a net change
SetAttribute(sess, attr, value) ==
    [sess EXCEPT !.document = [@ EXCEPT ![attr] = value],
                 !.dirty = IF value # sess.loaded[attr] THEN @ \cup {attr} ELSE @ \ {attr}]

\* document.doc_metadata[...] = ... / .update(...): doc_metadata is a plain
\* Column(JSONB) (models/document.py:36, no MutableDict), so the change made
\* inside the dict raises no attribute event and is not part of the flush
MutateInPlace(sess, attr, new) ==
    [sess EXCEPT !.document = [@ EXCEPT ![attr] = DictUpdate(@, new)]]

\* the UPDATE a commit flushes for the loaded Document: changed attributes only
Flushed(row, sess) ==
    [row EXCEPT !.processed = IF "processed" \in sess.dirty
                              THEN sess.document.processed ELSE @,
                !.doc_metadata = IF "doc_metadata" \in sess.dirty
                                 THEN sess.document.doc_metadata ELSE @]

SeqToSet(q) == { q[i] : i \in 1..Len(q) }

(***************************************************************************)
(* VectorStore.add_documents                                               *)
(***************************************************************************)
NumericKeys == {"chunk_index", "total_chunks", "char_count", "paragraph_count",
                "page_number"}

\* str(value) of the metadata values (vector_store.py:75-84)
Stringified(md) ==
    [k \in DOMAIN md |-> IF k \in NumericKeys THEN [str |-> md[k]] ELSE md[k]]

Min3(a, b, c) == IF a <= b /\ a <= c THEN a ELSE IF b <= c THEN b ELSE c

\* uuid4 values are modelled by consecutive numbers
NewIds(from, n) == [i \in 1..n |-> [uuid |-> from + i]]

\* add_documents without the comparison of the lengths: the entries are
\* paired as far as the shortest list goes
add_documents_unchecked(idx, from, embeddings, texts, metadatas) ==
    IF embeddings = <<>> \/ texts = <<>>
    THEN [raised |-> TRUE, ids |-> <<>>, index |-> idx, next_id |-> from]
    ELSE LET ids == NewIds(from, Len(embeddings))
             n == Min3(Len(embeddings), Len(texts), Len(metadatas))
         IN  [raised |-> FALSE,
              ids |-> ids,
              index |-> idx \cup { [id |-> ids[i], embedding |-> embeddings[i],
                                    document |-> texts[i],
                                    metadata |-> Stringified(metadatas[i])] :
                                   i \in 1..n },
              next_id |-> from + Len(embeddings)]

\* add_documents without ids: [raised, ids, index, next_id]
add_documents(idx, from, embeddings, texts, metadatas) ==
    IF embeddings = <<>> \/ texts = <<>>
    THEN [raised |-> TRUE, ids |-> <<>>, index |-> idx, next_id |-> from]
    ELSE IF Len(embeddings) # Len(texts) \/ Len(embeddings) # Len(metadatas)
    THEN [raised |-> TRUE, ids |-> <<>>, index |-> idx, next_id |-> from]
    ELSE LET ids == NewIds(from, Len(embeddings))
         IN  [raised |-> FALSE,
              ids |-> ids,
              index |-> idx \cup { [id |-> ids[i], embedding |-> embeddings[i],
                                    document |-> texts[i],
                                    metadata |-> Stringified(metadatas[i])] :
                                   i \in 1..Len(embeddings) },
              next_id |-> from + Len(embeddings)]

\* collection.add with caller-chosen ids: ids of the wrong number or
\* repeated in the call are rejected; an id the collection already holds is
\* either rejected or its record silently skipped, depending on the
\* collection's version (skip_existing)
add_documents_with_ids(idx, from, embeddings, texts, metadatas, ids, skip_existing) ==
    LET held == { e.id : e \in idx }
        failed == [raised |-> TRUE, ids |-> <<>>, index |-> idx, next_id |-> from]
    IN  IF embeddings = <<>> \/ texts = <<>>
        THEN failed
        ELSE IF Len(embeddings) # Len(texts) \/ Len(embeddings) # Len(metadatas)
        THEN failed
        ELSE IF \/ Len(ids) # Len(embeddings)
                \/ \E i, j \in 1..Len(ids) : (i # j /\ ids[i] = ids[j])
                \/ (~skip_existing /\ \E i \in 1..Len(ids) : ids[i] \in held)
        THEN failed
        ELSE [raised |-> FALSE,
              ids |-> ids,
              index |-> idx \cup { [id |-> ids[i], embedding |-> embeddings[i],
                                    document |-> texts[i],
                                    metadata |-> Stringified(metadatas[i])] :
                                   i \in { k \in 1..Len(ids) : ids[k] \notin held } },
              next_id |-> from]

(***************************************************************************)
(* Embedding gateway: one vector per text, a zero vector for an item whose *)
(* embedding failed (gemini_client.py:104-118).                            *)
(***************************************************************************)
ZeroVector == [zero |-> TRUE]
EmbeddingOf(t) == [of |-> t]

generate_embeddings_batch(texts, failing) ==
    [i \in 1..Len(texts) |-> IF i \in failing THEN ZeroVector ELSE EmbeddingOf(texts[i])]

\* @retry(stop=stop_after_attempt(3), reraise=True) around one provider
\* call: attempts[k] tells whether the k-th call succeeds
StopAfterAttempt == 3

\* the k-th provider call and what tenacity does with its outcome: return
\* the result, call again, or re-raise the exception of this attempt
\* (error is the number of the attempt whose exception propagates)
RECURSIVE Retrying(_, _, _)
Retrying(t, attempts, k) ==
    IF attempts[k]
    THEN [raised |-> FALSE, embedding |-> EmbeddingOf(t), calls |-> k, error |-> 0]
    ELSE IF k >= StopAfterAttempt
    THEN [raised |-> TRUE, embedding |-> <<>>, calls |-> k, error |-> k]
    ELSE Retrying(t, attempts, k + 1)

\* one provider call without the retry decorator
generate_embedding_once(t, attempts) ==
    IF attempts[1]
    THEN [raised |-> FALSE, embedding |-> EmbeddingOf(t), calls |-> 1, error |-> 0]
    ELSE [raised |-> TRUE, embedding |-> <<>>, calls |-> 1, error |-> 1]

\* GeminiClient.generate_embedding
generate_embedding(t, attempts) == Retrying(t, attempts, 1)

\* the loop body with the failed item left out
EmbedItemSkippingFailure(embeddings, t, attempts) ==
    LET r == generate_embedding(t, attempts)
    IN  IF r.raised THEN embeddings ELSE Append(embeddings, r.embedding)

\* gemini_client.py:109-116: one item of a batch
EmbedItem(embeddings, t, attempts) ==
    LET r == generate_embedding(t, attempts)
    IN  IF r.raised THEN Append(embeddings, ZeroVector) ELSE Append(embeddings, r.embedding)

\* for text in batch, batch being texts[lo..hi]
RECURSIVE EmbedItems(_, _, _, _, _)
EmbedItems(embeddings, texts, attempts, lo, hi) ==
    IF lo > hi THEN embeddings
    ELSE EmbedItems(EmbedItem(embeddings, texts[lo], attempts[lo]),
                    texts, attempts, lo + 1, hi)

\* for i in range(0, len(texts), batch_size)
RECURSIVE EmbedBatches(_, _, _, _, _)
EmbedBatches(embeddings, texts, attempts, start, batch_size) ==
    IF start > Len(texts) THEN embeddings
    ELSE LET hi == IF start + batch_size - 1 < Len(texts)
                   THEN start + batch_size - 1 ELSE Len(texts)
         IN  EmbedBatches(EmbedItems(embeddings, texts, attempts, start, hi),
                          texts, attempts, hi + 1, batch_size)

\* EmbeddingService.generate_embeddings -> GeminiClient.generate_embeddings_batch
generate_embeddings(texts, attempts, batch_size) ==
    EmbedBatches(<<>>, texts, attempts, 1, batch_size)

NoCall == [op |-> "none"]

(***************************************************************************)
(* The process_document task (tasks/document_processing.py).               *)
(***************************************************************************)
max_retries == 3

\* Python's None where a string is expected
None == "None"

\* a process_document task: its document_id argument, its position in
\* _process_document_async and the locals of the run
IdleTask ==
    [document_id |-> None, pc |-> "none", retries |-> 0, countdown |-> 0, content_data |-> EmptyDict,
     chunks_data |-> <<>>, embeddings |-> <<>>, chunk_ids |-> <<>>,
     session |-> NoSession, error |-> "none"]

PipelineIdle ==
    /\ documents = [d \in Docs |-> NoDocument]
    /\ chunk_rows = {}
    /\ index = {}
    /\ next_id = 0
    /\ task = [d \in Docs |-> IdleTask]
    /\ faults = 0
    /\ deletion = [d \in Docs |-> "none"]
    /\ call = NoCall

\* an external failure happens only while the failure budget lasts
Inject(failed) ==
    /\ failed => faults < MaxFaults
    /\ faults' = IF failed THEN faults + 1 ELSE faults

(***************************************************************************)
(* Retrieval and context assembly (services/rag_service.py).  Distances    *)
(* and scores are exact rationals [num, den] with positive denominators.   *)
(***************************************************************************)
\* similarity_score = 1 / (1 + distance)
Similarity(distance) == [num |-> distance.den, den |-> distance.den + distance.num]

AtLeast(a, b) == a.num * b.den >= b.num * a.den
Greater(a, b) == a.num * b.den > b.num * a.den

\* settings.relevance_threshold = 0.3
relevance_threshold == [num |-> 3, den |-> 10]

\* rag_service.py:79-90: the search results as chunk dicts
StructuredChunks(results) ==
    [i \in 1..Len(results) |->
        [id |-> results[i].id, content |-> results[i].document,
         metadata |-> results[i].metadata,
         relevance_score |-> Similarity(results[i].distance)]]

\* the relevance test with the threshold itself excluded
IsRelevantStrict(c) == Greater(c.relevance_score, relevance_threshold)

\* c["relevance_score"] >= settings.relevance_threshold
IsRelevant(c) == AtLeast(c.relevance_score, relevance_threshold)

Take(q, n) == SubSeq(q, 1, IF Len(q) < n THEN Len(q) ELSE n)

\* rag_service.py:135-141
RelevantChunks(cs, k) == Take(SelectSeq(cs, IsRelevant), k)

\* RAGService._get_document_info: the document's dict, None when the
\* select finds no row
get_document_info(doc_id) ==
    IF doc_id \in DOMAIN documents /\ documents[doc_id].present
    THEN [found |-> TRUE, info |-> [id |-> doc_id]]
    ELSE [found |-> FALSE, info |-> None]

ExcerptLength == 200

\* the bare slice, without a marker
ExcerptWithoutEllipsis(content) == Take(content, ExcerptLength)

\* chunk["content"][:200] + "..."
Excerpt(content) == Take(content, ExcerptLength) \o <<".", ".", ".">>

\* metadata.get("document_id")
DocumentIdOf(c) ==
    IF "document_id" \in DOMAIN c.metadata THEN c.metadata.document_id ELSE None

ContextPart(i, c) == [source |-> i, content |-> c.content]

\* the loop body with a source reference made for every chunk of a
\* resolvable document
ContextStepNoDedup(st, i, c) ==
    LET doc_id == DocumentIdOf(c)
        looked_up == doc_id # None
        found == looked_up /\ get_document_info(doc_id).found
    IN  [ context_parts |-> Append(st.context_parts, ContextPart(i, c)),
          lookups |-> IF looked_up THEN Append(st.lookups, doc_id) ELSE st.lookups,
          seen_docs |-> IF found THEN st.seen_docs \cup {doc_id} ELSE st.seen_docs,
          sources |-> IF found
                      THEN Append(st.sources,
                                  [document_id |-> doc_id,
                                   chunk_content |-> Excerpt(c.content),
                                   relevance_score |-> c.relevance_score])
                      ELSE st.sources ]

\* one iteration of the loop of _build_context (rag_service.py:151-185)
ContextStep(st, i, c) ==
    LET doc_id == DocumentIdOf(c)
        looked_up == doc_id # None /\ doc_id \notin st.seen_docs
        found == looked_up /\ get_document_info(doc_id).found
    IN  [ context_parts |-> Append(st.context_parts, ContextPart(i, c)),
          lookups |-> IF looked_up THEN Append(st.lookups, doc_id) ELSE st.lookups,
          seen_docs |-> IF found THEN st.seen_docs \cup {doc_id} ELSE st.seen_docs,
          sources |-> IF found
                      THEN Append(st.sources,
                                  [document_id |-> doc_id,
                                   chunk_content |-> Excerpt(c.content),
                                   relevance_score |-> c.relevance_score])
                      ELSE st.sources ]

RECURSIVE ContextLoop(_, _, _)
ContextLoop(st, relevant, i) ==
    IF i > Len(relevant) THEN st
    ELSE ContextLoop(ContextStep(st, i, relevant[i]), relevant, i + 1)

ContextHeader == [source |-> 0, content |-> <<>>]

\* _build_context without the early return for an empty selection
build_context_no_short_circuit(cs, k) ==
    LET relevant == RelevantChunks(cs, k)
        st == ContextLoop([context_parts |-> <<ContextHeader>>, lookups |-> <<>>,
                           seen_docs |-> {}, sources |-> <<>>], relevant, 1)
    IN  [context |-> st.context_parts, sources |-> st.sources,
         lookups |-> st.lookups, relevant |-> relevant]

\* RAGService._build_context: the context (its parts; <<>> is the empty
\* string), the source references, and the document lookups it issued
build_context(cs, k) ==
    LET relevant == RelevantChunks(cs, k)
        st == ContextLoop([context_parts |-> <<ContextHeader>>, lookups |-> <<>>,
                           seen_docs |-> {}, sources |-> <<>>], relevant, 1)
    IN  IF relevant = <<>>
        THEN [context |-> <<>>, sources |-> <<>>, lookups |-> <<>>, relevant |-> relevant]
        ELSE [context |-> st.context_parts, sources |-> st.sources,
              lookups |-> st.lookups, relevant |-> relevant]

(***************************************************************************)
(* Conversation turns.                                                     *)
(***************************************************************************)
NoConversation == "none"
KnownConversation == "c1"
OtherConversation == "c0"
UnknownConversation == "c9"

InsufficientBatch == "I don't have enough information in the provided sources to answer this question. Please add relevant documents first."
InsufficientStream == "I don't have enough information in the provided sources to answer this question."

Fragments == {"f1", "f2"}

\* .order_by(Message.created_at.desc())
RECURSIVE OrderByCreatedAtDesc(_)
OrderByCreatedAtDesc(ms) ==
    IF ms = <<>> THEN <<>>
    ELSE LET k == CHOOSE i \in 1..Len(ms) :
                     \A j \in 1..Len(ms) : ms[j].created_at <= ms[i].created_at
         IN  <<ms[k]>> \o
             OrderByCreatedAtDesc(SubSeq(ms, 1, k - 1) \o SubSeq(ms, k + 1, Len(ms)))

RECURSIVE Reversed(_)
Reversed(q) == IF q = <<>> THEN <<>> ELSE Append(Reversed(Tail(q)), Head(q))

\* f"{role}: {msg.content}\n"
HistoryLine(msg) ==
    [role |-> IF msg.role = "user" THEN "User" ELSE "Assistant",
     content |-> msg.content]

\* the query limited to limit messages instead of limit * 2
get_conversation_history_unpaired(conversation_id, limit) ==
    LET Own(m) == m.conversation_id = conversation_id
        fetched == Take(OrderByCreatedAtDesc(SelectSeq(messages, Own)), limit)
        chronological == Reversed(fetched)
    IN  [i \in 1..Len(chronological) |-> HistoryLine(chronological[i])]

\* RAGService._get_conversation_history: the lines after the heading, in
\* chronological order; <<>> is the empty string of a conversation without
\* messages
get_conversation_history(conversation_id, limit) ==
    LET Own(m) == m.conversation_id = conversation_id
        fetched == Take(OrderByCreatedAtDesc(SelectSeq(messages, Own)), limit * 2)
        chronological == Reversed(fetched)
    IN  [i \in 1..Len(chronological) |-> HistoryLine(chronological[i])]

\* rag_service.py:303-308: no history is fetched without a conversation id
ConversationHistory(conversation_id) ==
    IF conversation_id # NoConversation
    THEN get_conversation_history(conversation_id, max_conversation_history)
    ELSE <<>>

IdleTurn ==
    [mode |-> "none", pc |-> "idle", conversation_id |-> NoConversation,
     chunks |-> <<>>, relevant |-> <<>>, context |-> <<>>, sources |-> <<>>,
     lookups |-> <<>>, history |-> <<>>, generation_calls |-> 0, answer |-> <<>>,
     forwarded |-> <<>>]

RagIdle ==
    /\ top_k_context = 0
    /\ max_conversation_history = 0
    /\ conversations = [c \in {KnownConversation} |-> [updated_at |-> 0]]
    /\ messages = <<>>
    /\ clock = 0
    /\ turn = IdleTurn

(***************************************************************************)
(* Chunker specification: the configuration and the text are drawn from    *)
(* the bounded sets, then one of the two entry points is applied.          *)
(***************************************************************************)
\* pages as the PDF parser numbers them (pdf_parser.py:108, start=1)
LongPage ==
    <<"A","a","a","a",".", " ", "A","a","a","a",".", " ", "A","a","a","a",".">>

PageTexts(t) == { t, LongPage }

PagesOf(ts) == [ k \in 1..Len(ts) |-> [page_number |-> k, text |-> ts[k]] ]

PageLists(t) ==
    { PagesOf(ts) : ts \in UNION { [1..n -> PageTexts(t)] : n \in 1..MaxPages } }

InitChunker ==
    /\ chunk_size \in ChunkSizes
    /\ chunk_overlap \in ChunkOverlaps
    /\ text \in Texts
    /\ pages = <<>>
    /\ op = "none"
    /\ chunks = <<>>
    /\ run = IdleRun
    /\ PipelineIdle
    /\ RagIdle

ChunkText ==
    /\ op = "none"
    /\ op' = "chunk_text"
    /\ chunks' = Returned(chunk_text(<<SourceMetadata>>, text, 1, chunk_size, chunk_overlap))
    /\ UNCHANGED <<chunk_size, chunk_overlap, text, pages, run, pipelineVars>>

ChunkDocumentWithPages ==
    /\ op = "none"
    /\ \E ps \in PageLists(text) :
         /\ pages' = ps
         /\ chunks' = Returned(chunk_document_with_pages(<<SourceMetadata>>, ps, 1,
                                                        chunk_size, chunk_overlap))
    /\ op' = "chunk_document_with_pages"
    /\ UNCHANGED <<chunk_size, chunk_overlap, text, run, pipelineVars>>

NextChunker ==
    /\ ChunkText \/ ChunkDocumentWithPages
    /\ UNCHANGED <<deletion, call, ragVars>>

SpecChunker == InitChunker /\ [][NextChunker]_vars

(***************************************************************************)
(* Chunker loops: the same two entry points, one action per iteration of   *)
(* the page loop, of the paragraph loop and of the sentence loop.          *)
(***************************************************************************)
StepTokens == { LongPage, <<"\n", "\n">>, <<"A", "a", ".">> }

StepTexts == { Flatten(ts) : ts \in UNION { [1..n -> StepTokens] : n \in 0..MaxStepTokens } }

InitChunkerSteps ==
    /\ chunk_size \in ChunkSizes
    /\ chunk_overlap \in ChunkOverlaps
    /\ text = <<>>
    /\ pages = <<>>
    /\ op = "none"
    /\ chunks = <<>>
    /\ run = IdleRun
    /\ PipelineIdle
    /\ RagIdle

\* chunk_text up to the paragraph loop (chunker.py:159-171), on the dict
\* object ref of heap
EnterChunkText(r, heap, s, ref) ==
    LET heap1 == IF heap[ref] = EmptyDict THEN Append(heap, EmptyDict) ELSE heap
        metadata == IF heap[ref] = EmptyDict THEN Len(heap1) ELSE ref
    IN  [r EXCEPT !.pc = "paragraphs", !.ref = metadata,
                  !.paragraphs = split_into_paragraphs(s), !.k = 1,
                  !.st = [chunks |-> <<>>, heap |-> heap1,
                          current_chunk |-> <<>>, current_paragraphs |-> 0]]

\* chunk_text is called with a text
BeginChunkText ==
    /\ run.pc = "idle"
    /\ \E t \in StepTexts :
         /\ text' = t
         /\ IF TooShort(t)
            THEN /\ run' = [run EXCEPT !.mode = "chunk_text", !.pc = "done"]
                 /\ op' = "chunk_text"
                 /\ chunks' = <<>>
            ELSE /\ run' = EnterChunkText([run EXCEPT !.mode = "chunk_text"],
                                          <<SourceMetadata>>, t, 1)
                 /\ UNCHANGED <<op, chunks>>
    /\ UNCHANGED <<chunk_size, chunk_overlap, pages>>

\* chunk_document_with_pages is called with a list of pages
BeginChunkDocumentWithPages ==
    /\ run.pc = "idle"
    /\ \E t \in StepTexts :
         \E ps \in PageLists(t) :
             /\ text' = t
             /\ pages' = ps
             /\ run' = [run EXCEPT !.mode = "chunk_document_with_pages", !.pc = "pages",
                                   !.pages = ps, !.page = 1,
                                   !.acc = [chunks |-> <<>>, heap |-> <<SourceMetadata>>]]
    /\ UNCHANGED <<chunk_size, chunk_overlap, op, chunks>>

\* for page_data in pages (chunker.py:200-215): the page is skipped, or
\* chunk_text is entered with the page's metadata dict
PageIteration ==
    /\ run.pc = "pages"
    /\ run.page <= Len(run.pages)
    /\ LET page_text == run.pages[run.page].text
           heap1 == Append(run.acc.heap,
                           DictUpdate(run.acc.heap[1],
                                      [page_number |-> run.pages[run.page].page_number]))
       IN  run' = IF TooShort(page_text)
                  THEN [run EXCEPT !.page = @ + 1]
                  ELSE EnterChunkText(run, heap1, page_text, Len(heap1))
    /\ UNCHANGED <<chunk_size, chunk_overlap, text, pages, op, chunks>>

\* the page loop is over: the re-index pass and the return
\* (chunker.py:217-223)
EndPages ==
    /\ run.pc = "pages"
    /\ run.page > Len(run.pages)
    /\ run' = [run EXCEPT !.pc = "done"]
    /\ op' = "chunk_document_with_pages"
    /\ chunks' = Returned([chunks |-> run.acc.chunks,
                           heap |-> ReIndex(run.acc.heap, run.acc.chunks, 1)])
    /\ UNCHANGED <<chunk_size, chunk_overlap, text, pages>>

\* for paragraph in paragraphs (chunker.py:76-117): a paragraph longer
\* than chunk_size that does not fit enters the sentence loop
ParagraphIteration ==
    /\ run.pc = "paragraphs"
    /\ run.k <= Len(run.paragraphs)
    /\ LET paragraph == run.paragraphs[run.k]
           st == run.st
           overflow == Len(st.current_chunk) + Len(paragraph) > chunk_size
           flushed ==
               IF st.current_chunk # <<>>
               THEN [st EXCEPT
                       !.chunks = Append(@, [content |-> Strip(st.current_chunk),
                                             metadata |-> Len(st.heap) + 1]),
                       !.heap = Append(@, DictUpdate(st.heap[run.ref],
                                          [paragraph_count |-> st.current_paragraphs]))]
               ELSE st
       IN  run' = IF overflow /\ Len(paragraph) > chunk_size
                  THEN [run EXCEPT !.pc = "sentences", !.st = flushed,
                                   !.sentences = split_into_sentences(paragraph),
                                   !.j = 1,
                                   !.sst = [chunks |-> flushed.chunks,
                                            temp_chunk |-> <<>>]]
                  ELSE [run EXCEPT !.k = @ + 1,
                                   !.st = ParagraphStep(st, paragraph, chunk_size,
                                                        chunk_overlap, run.ref)]
    /\ UNCHANGED <<chunk_size, chunk_overlap, text, pages, op, chunks>>

\* for sentence in sentences (chunker.py:96-105)
SentenceIteration ==
    /\ run.pc = "sentences"
    /\ run.j <= Len(run.sentences)
    /\ run' = [run EXCEPT !.j = @ + 1,
                          !.sst = SentenceStep(@, run.sentences[run.j], chunk_size, run.ref)]
    /\ UNCHANGED <<chunk_size, chunk_overlap, text, pages, op, chunks>>

\* the sentence loop started again from its first sentence when the
\* overlap leaves no room for progress
EndSentencesRewinding ==
    /\ run.pc = "sentences"
    /\ run.j > Len(run.sentences)
    /\ run' = IF chunk_overlap >= chunk_size
              THEN [run EXCEPT !.j = 1,
                               !.sst = [chunks |-> run.st.chunks, temp_chunk |-> <<>>]]
              ELSE [run EXCEPT !.pc = "paragraphs", !.k = @ + 1,
                               !.st = [chunks |-> run.sst.chunks, heap |-> run.st.heap,
                                       current_chunk |-> OverlapSeed(run.sst.temp_chunk,
                                                                     chunk_overlap),
                                       current_paragraphs |-> 1]]
    /\ UNCHANGED <<chunk_size, chunk_overlap, text, pages, op, chunks>>

\* the sentence loop is over: the rest of the buffer seeds the next chunk
\* (chunker.py:107-111) and the paragraph loop goes on
EndSentences ==
    /\ run.pc = "sentences"
    /\ run.j > Len(run.sentences)
    /\ run' = [run EXCEPT
                 !.pc = "paragraphs", !.k = @ + 1,
                 !.st = IF run.sst.temp_chunk # <<>>
                        THEN [chunks |-> run.sst.chunks, heap |-> run.st.heap,
                              current_chunk |-> OverlapSeed(run.sst.temp_chunk,
                                                            chunk_overlap),
                              current_paragraphs |-> 1]
                        ELSE [run.st EXCEPT !.chunks = run.sst.chunks]]
    /\ UNCHANGED <<chunk_size, chunk_overlap, text, pages, op, chunks>>

\* the paragraph loop is over: the final chunk and the index pass
\* (chunker.py:119-129, 174-180), then the return to the caller or to the
\* page loop
EndParagraphs ==
    /\ run.pc = "paragraphs"
    /\ run.k > Len(run.paragraphs)
    /\ LET st == run.st
           made == IF st.current_chunk # <<>>
                   THEN [chunks |-> Append(st.chunks,
                                           [content |-> Strip(st.current_chunk),
                                            metadata |-> Len(st.heap) + 1]),
                         heap |-> Append(st.heap,
                                         DictUpdate(st.heap[run.ref],
                                             [paragraph_count |-> st.current_paragraphs]))]
                   ELSE [chunks |-> st.chunks, heap |-> st.heap]
           indexed == AddChunkIndices(made.heap, made.chunks, 1)
       IN  IF run.mode = "chunk_text"
           THEN /\ run' = [run EXCEPT !.pc = "done"]
                /\ op' = "chunk_text"
                /\ chunks' = Returned([chunks |-> made.chunks, heap |-> indexed])
           ELSE /\ run' = [run EXCEPT !.pc = "pages", !.page = @ + 1,
                                      !.acc = [chunks |-> run.acc.chunks \o made.chunks,
                                               heap |-> indexed]]
                /\ UNCHANGED <<op, chunks>>
    /\ UNCHANGED <<chunk_size, chunk_overlap, text, pages>>

\* the next step of the call in progress
ChunkerStep ==
    /\ \/ PageIteration
       \/ EndPages
       \/ ParagraphIteration
       \/ SentenceIteration
       \/ EndSentences
       \/ EndParagraphs
    /\ UNCHANGED <<pipelineVars, deletion, call, ragVars>>

NextChunkerSteps ==
    \/ /\ BeginChunkText \/ BeginChunkDocumentWithPages
       /\ UNCHANGED <<pipelineVars, deletion, call, ragVars>>
    \/ ChunkerStep

\* a call is inside one of its loops; each loop position has exactly one
\* step, the next iteration or the loop's exit, so ChunkerStep is enabled
\* exactly in these states
Running == run.pc \in {"pages", "paragraphs", "sentences"}

\* the interpreter goes on executing a call that has a next step: weak
\* fairness of ChunkerStep, WF_vars(ChunkerStep), written with the enabling
\* condition Running
SpecChunkerSteps ==
    /\ InitChunkerSteps
    /\ [][NextChunkerSteps]_vars
    /\ ([]<>(~Running) \/ []<><<ChunkerStep>>_vars)

(***************************************************************************)
(* Pipeline specification: documents are uploaded, each upload queues one  *)
(* process_document task, and the tasks of different documents interleave  *)
(* at their await points.                                                  *)
(***************************************************************************)
ShortText == <<"A", "a", ".", " ", "A", "a", ".">>
TwoParagraphs == <<"A", "a", "a", "a", ".", "\n", "\n", "A", "a", "a", "a", ".">>

\* content_data as the extractors return it (a parsed PDF carries pages)
Sources ==
    { [content |-> ShortText],
      [content |-> TwoParagraphs],
      [content |-> LongPage \o ShortText,
       pages |-> PagesOf(<<LongPage, ShortText>>)] }

\* the settings the pipeline's chunker is built from (get_chunker)
PipelineChunkSizes == {6}
PipelineChunkOverlaps == {2}

\* the Chunk objects of document_processing.py:134-142, indexed by the
\* mutant below from the chunk metadata instead of enumerate()
ChunkRecordsIndexFromMetadata(d, chunks_data, chunk_ids) ==
    LET n == IF Len(chunks_data) < Len(chunk_ids) THEN Len(chunks_data) ELSE Len(chunk_ids)
    IN  [i \in 1..n |->
            [document_id |-> d,
             content |-> chunks_data[i].content,
             chunk_index |-> chunks_data[i].metadata.chunk_index,
             embedding_id |-> chunk_ids[i],
             chunk_metadata |-> chunks_data[i].metadata]]

\* the Chunk objects built from zip(chunks_data, chunk_ids)
\* (document_processing.py:134-142)
ChunkRecords(d, chunks_data, chunk_ids) ==
    LET n == IF Len(chunks_data) < Len(chunk_ids) THEN Len(chunks_data) ELSE Len(chunk_ids)
    IN  [i \in 1..n |->
            [document_id |-> d,
             content |-> chunks_data[i].content,
             chunk_index |-> i - 1,
             embedding_id |-> chunk_ids[i],
             chunk_metadata |-> chunks_data[i].metadata]]

Contents(chunks_data) == [i \in 1..Len(chunks_data) |-> chunks_data[i].content]
Metadatas(chunks_data) == [i \in 1..Len(chunks_data) |-> chunks_data[i].metadata]

InitPipeline ==
    /\ chunk_size \in PipelineChunkSizes
    /\ chunk_overlap \in PipelineChunkOverlaps
    /\ text = <<>>
    /\ pages = <<>>
    /\ op = "none"
    /\ chunks = <<>>
    /\ run = IdleRun
    /\ PipelineIdle
    /\ RagIdle

\* upload_url / upload_pdf / upload_text: commit the Document row, then
\* process_document_task.delay (routers/documents.py:198-212)
UploadDocument(d) ==
    /\ ~documents[d].present
    /\ task[d].pc = "none"
    /\ deletion[d] = "none"
    /\ \E src \in Sources :
         documents' = [documents EXCEPT ![d] =
                          [present |-> TRUE, processed |-> FALSE,
                           doc_metadata |-> EmptyDict, source |-> src]]
    /\ task' = [task EXCEPT ![d] = [IdleTask EXCEPT !.pc = "queued", !.document_id = d]]
    /\ UNCHANGED <<chunkerVars, chunk_rows, index, next_id, faults>>

\* document_processing.py:43-50
LoadDocument(d) ==
    /\ task[d].pc = "queued"
    /\ task' = [task EXCEPT ![d] =
                   IF documents[task[d].document_id].present
                   THEN [@ EXCEPT !.pc = "extract", !.countdown = 0, !.error = "none",
                                  !.content_data = EmptyDict, !.chunks_data = <<>>,
                                  !.embeddings = <<>>, !.chunk_ids = <<>>,
                                  !.session = SelectDocument(task[d].document_id)]
                   ELSE [@ EXCEPT !.pc = "failed", !.countdown = 0,
                                  !.error = "Document not found",
                                  !.content_data = EmptyDict, !.chunks_data = <<>>,
                                  !.embeddings = <<>>, !.chunk_ids = <<>>,
                                  !.session = NoSession]]
    /\ UNCHANGED <<chunkerVars, storeVars, faults>>

\* document_processing.py:54-81: the extractor raises or returns content_data
ExtractContent(d) ==
    /\ task[d].pc = "extract"
    /\ \E raised \in BOOLEAN :
         /\ Inject(raised)
         /\ task' = [task EXCEPT ![d] =
                        IF raised
                        THEN [@ EXCEPT !.pc = "failed", !.error = "extraction failed"]
                        ELSE [@ EXCEPT !.pc = "chunk",
                                       !.content_data = documents[task[d].document_id].source]]
    /\ UNCHANGED <<chunkerVars, storeVars>>

\* the same without the check for an empty chunk list
ChunkContentUnchecked(d) ==
    /\ task[d].pc = "chunk"
    /\ LET source_metadata == <<[document_id |-> task[d].document_id]>>
           chunks_data ==
               IF "pages" \in DOMAIN task[d].content_data
               THEN Returned(chunk_document_with_pages(source_metadata,
                                 task[d].content_data.pages, 1, chunk_size, chunk_overlap))
               ELSE Returned(chunk_text(source_metadata,
                                 task[d].content_data.content, 1, chunk_size, chunk_overlap))
       IN  task' = [task EXCEPT ![d] = [@ EXCEPT !.pc = "embed", !.chunks_data = chunks_data]]
    /\ UNCHANGED <<chunkerVars, storeVars, faults>>

\* document_processing.py:83-112
ChunkContent(d) ==
    /\ task[d].pc = "chunk"
    /\ LET source_metadata == <<[document_id |-> task[d].document_id]>>
           chunks_data ==
               IF "pages" \in DOMAIN task[d].content_data
               THEN Returned(chunk_document_with_pages(source_metadata,
                                 task[d].content_data.pages, 1, chunk_size, chunk_overlap))
               ELSE Returned(chunk_text(source_metadata,
                                 task[d].content_data.content, 1, chunk_size, chunk_overlap))
       IN  task' = [task EXCEPT ![d] =
                       IF chunks_data = <<>>
                       THEN [@ EXCEPT !.pc = "failed", !.error = "No chunks created from document"]
                       ELSE [@ EXCEPT !.pc = "embed", !.chunks_data = chunks_data]]
    /\ UNCHANGED <<chunkerVars, storeVars, faults>>

\* document_processing.py:116-119: item failures become zero vectors
GenerateEmbeddings(d) ==
    /\ task[d].pc = "embed"
    /\ \E failing \in SUBSET (1..Len(task[d].chunks_data)) \cap SUBSET (1..MaxFailingItem) :
         task' = [task EXCEPT ![d] =
                     [@ EXCEPT !.pc = "upsert",
                               !.embeddings = generate_embeddings_batch(
                                                  Contents(task[d].chunks_data), failing)]]
    /\ UNCHANGED <<chunkerVars, storeVars, faults>>

\* the same with the document's earlier entries purged before the write
AddDocumentsPurging(d) ==
    /\ task[d].pc = "upsert"
    /\ \E rejected \in BOOLEAN :
         LET purged == { e \in index : ~("document_id" \in DOMAIN e.metadata
                                          /\ e.metadata.document_id = task[d].document_id) }
             r == add_documents(purged, next_id, task[d].embeddings,
                                Contents(task[d].chunks_data),
                                Metadatas(task[d].chunks_data))
         IN  /\ Inject(rejected)
             /\ IF rejected \/ r.raised
                THEN /\ task' = [task EXCEPT ![d] =
                                    [@ EXCEPT !.pc = "failed", !.error = "vector store error"]]
                     /\ UNCHANGED <<index, next_id>>
                ELSE /\ task' = [task EXCEPT ![d] =
                                    [@ EXCEPT !.pc = "persist", !.chunk_ids = r.ids]]
                     /\ index' = r.index
                     /\ next_id' = r.next_id
    /\ UNCHANGED <<chunkerVars, documents, chunk_rows>>

\* document_processing.py:123-129: the collection rejects the write, or the
\* entries are added and their ids returned
AddDocuments(d) ==
    /\ task[d].pc = "upsert"
    /\ \E rejected \in BOOLEAN :
         LET r == add_documents(index, next_id, task[d].embeddings,
                                Contents(task[d].chunks_data),
                                Metadatas(task[d].chunks_data))
         IN  /\ Inject(rejected)
             /\ IF rejected \/ r.raised
                THEN /\ task' = [task EXCEPT ![d] =
                                    [@ EXCEPT !.pc = "failed", !.error = "vector store error"]]
                     /\ UNCHANGED <<index, next_id>>
                ELSE /\ task' = [task EXCEPT ![d] =
                                    [@ EXCEPT !.pc = "persist", !.chunk_ids = r.ids]]
                     /\ index' = r.index
                     /\ next_id' = r.next_id
    /\ UNCHANGED <<chunkerVars, documents, chunk_rows>>

\* the same with the document's earlier Chunk rows replaced by the new ones
SaveChunksReplacing(d) ==
    /\ task[d].pc = "persist"
    /\ \E committed \in BOOLEAN :
         LET records == ChunkRecords(task[d].document_id, task[d].chunks_data, task[d].chunk_ids)
             sess == MutateInPlace(
                         SetAttribute([task[d].session EXCEPT !.new = records],
                                      "processed", TRUE),
                         "doc_metadata", [chunks_count |-> Len(task[d].chunks_data)])
         IN  /\ Inject(~committed)
             /\ IF committed /\ documents[task[d].document_id].present
                THEN /\ chunk_rows' = { r \in chunk_rows : r.document_id # task[d].document_id }
                                      \cup SeqToSet(sess.new)
                     /\ documents' = [documents EXCEPT ![task[d].document_id] = Flushed(@, sess)]
                     /\ task' = [task EXCEPT ![d] =
                                    [@ EXCEPT !.pc = "succeeded", !.session = NoSession]]
                ELSE /\ task' = [task EXCEPT ![d] =
                                    [@ EXCEPT !.pc = "failed", !.error = "commit failed",
                                              !.session = sess]]
                     /\ UNCHANGED <<documents, chunk_rows>>
    /\ UNCHANGED <<chunkerVars, index, next_id>>

\* document_processing.py:133-164: db.add of the Chunk objects,
\* processed = True, the in-place metadata update and the commit
SaveChunks(d) ==
    /\ task[d].pc = "persist"
    /\ \E committed \in BOOLEAN :
         LET records == ChunkRecords(task[d].document_id, task[d].chunks_data, task[d].chunk_ids)
             sess == MutateInPlace(
                         SetAttribute([task[d].session EXCEPT !.new = records],
                                      "processed", TRUE),
                         "doc_metadata", [chunks_count |-> Len(task[d].chunks_data)])
         IN  /\ Inject(~committed)
             /\ IF committed /\ documents[task[d].document_id].present
                THEN /\ chunk_rows' = chunk_rows \cup SeqToSet(sess.new)
                     /\ documents' = [documents EXCEPT ![task[d].document_id] = Flushed(@, sess)]
                     /\ task' = [task EXCEPT ![d] =
                                    [@ EXCEPT !.pc = "succeeded", !.session = NoSession]]
                ELSE /\ task' = [task EXCEPT ![d] =
                                    [@ EXCEPT !.pc = "failed", !.error = "commit failed",
                                              !.session = sess]]
                     /\ UNCHANGED <<documents, chunk_rows>>
    /\ UNCHANGED <<chunkerVars, index, next_id>>

\* document_processing.py:166-183: rollback, re-select the document, set the
\* error annotation and processed = False, commit (a failure of this update
\* is only logged), re-raise
HandleFailure(d) ==
    /\ task[d].pc = "failed"
    /\ \E committed \in BOOLEAN :
         LET reloaded == SelectDocument(task[d].document_id)
             sess == SetAttribute(
                         MutateInPlace(reloaded, "doc_metadata",
                                       [processing_error |-> task[d].error]),
                         "processed", FALSE)
         IN  /\ Inject(~committed)
             /\ IF documents[task[d].document_id].present /\ committed
                THEN /\ documents' = [documents EXCEPT ![task[d].document_id] = Flushed(@, sess)]
                     /\ task' = [task EXCEPT ![d] =
                                    [@ EXCEPT !.pc = "raised",
                                              !.session = [sess EXCEPT !.dirty = {}]]]
                ELSE /\ task' = [task EXCEPT ![d] =
                                    [@ EXCEPT !.pc = "raised", !.session = reloaded]]
                     /\ UNCHANGED documents
    /\ UNCHANGED <<chunkerVars, chunk_rows, index, next_id>>

\* a delay that grows by one minute per retry
CountdownLinear(retries) == 60 * (retries + 1)

\* countdown=60 * (2 ** self.request.retries)
Countdown(retries) == 60 * (2 ^ retries)

\* process_document_task, document_processing.py:202-205: self.retry with
\* countdown 60 * 2^retries until max_retries is exceeded
RetryTask(d) ==
    /\ task[d].pc = "raised"
    /\ task' = [task EXCEPT ![d] =
                   IF @.retries < max_retries
                   THEN [@ EXCEPT !.pc = "queued",
                                  !.countdown = Countdown(task[d].retries),
                                  !.retries = @ + 1,
                                  !.session = NoSession]
                   ELSE [@ EXCEPT !.pc = "given_up", !.session = NoSession]]
    /\ UNCHANGED <<chunkerVars, storeVars, faults>>

NextPipeline ==
    /\ \E d \in Docs :
          \/ UploadDocument(d)
          \/ LoadDocument(d)
          \/ ExtractContent(d)
          \/ ChunkContent(d)
          \/ GenerateEmbeddings(d)
          \/ AddDocuments(d)
          \/ SaveChunks(d)
          \/ HandleFailure(d)
          \/ RetryTask(d)
    /\ UNCHANGED <<deletion, call, ragVars>>

SpecPipeline == InitPipeline /\ [][NextPipeline]_vars

(***************************************************************************)
(* Deletion specification: delete_document requests run beside the         *)
(* pipeline tasks; the request first clears the vector index, then deletes *)
(* the Document row, and awaits the database in between.                   *)
(***************************************************************************)
EntriesOf(idx, d) ==
    { e \in idx : "document_id" \in DOMAIN e.metadata /\ e.metadata.document_id = d }

\* VectorStore.delete_by_document_id: collection.get(where=...), then
\* collection.delete(ids=...)
delete_by_document_id(idx, d) == idx \ EntriesOf(idx, d)

\* db.delete(document): the chunks relationship cascades "all,
\* delete-orphan" and the foreign key is ON DELETE CASCADE
DeleteRows(rows, d) == { r \in rows : r.document_id # d }

\* routers/documents.py:307-322: select the document (404 when missing),
\* then delete its entries from the vector index
DeleteFromIndex(d) ==
    /\ deletion[d] \in {"none", "failed"}
    /\ documents[d].present
    /\ \E raised \in BOOLEAN :
         /\ Inject(raised)
         /\ IF raised
            THEN /\ deletion' = [deletion EXCEPT ![d] = "failed"]
                 /\ UNCHANGED index
            ELSE /\ deletion' = [deletion EXCEPT ![d] = "index_deleted"]
                 /\ index' = delete_by_document_id(index, d)
    /\ UNCHANGED <<chunkerVars, documents, chunk_rows, next_id, task, call, ragVars>>

\* routers/documents.py:331-340: db.delete(document) and the commit; a task
\* that loaded the document before keeps working on its own copy
DeleteDocument(d) ==
    /\ deletion[d] = "index_deleted"
    /\ \E committed \in BOOLEAN :
         /\ Inject(~committed)
         /\ IF committed /\ documents[d].present
            THEN /\ deletion' = [deletion EXCEPT ![d] = "deleted"]
                 /\ documents' = [documents EXCEPT ![d].present = FALSE]
                 /\ chunk_rows' = DeleteRows(chunk_rows, d)
            ELSE /\ deletion' = [deletion EXCEPT ![d] = "failed"]
                 /\ UNCHANGED <<documents, chunk_rows>>
    /\ UNCHANGED <<chunkerVars, index, next_id, task, call, ragVars>>

\* two documents were uploaded, a paged one and a plain one, and their
\* tasks are queued
InitDeletion ==
    /\ chunk_size \in PipelineChunkSizes
    /\ chunk_overlap \in PipelineChunkOverlaps
    /\ text = <<>>
    /\ pages = <<>>
    /\ op = "none"
    /\ chunks = <<>>
    /\ run = IdleRun
    /\ documents = [d \in Docs |->
                       [present |-> TRUE, processed |-> FALSE,
                        doc_metadata |-> EmptyDict,
                        source |-> IF d = "d1"
                                   THEN [content |-> LongPage \o ShortText,
                                         pages |-> PagesOf(<<LongPage, ShortText>>)]
                                   ELSE [content |-> ShortText]]]
    /\ chunk_rows = {}
    /\ index = {}
    /\ next_id = 0
    /\ task = [d \in Docs |-> [IdleTask EXCEPT !.pc = "queued", !.document_id = d]]
    /\ faults = 0
    /\ deletion = [d \in Docs |-> "none"]
    /\ call = NoCall
    /\ RagIdle

NextDeletion ==
    \/ /\ \E d \in Docs :
             \/ LoadDocument(d)
             \/ ExtractContent(d)
             \/ ChunkContent(d)
             \/ GenerateEmbeddings(d)
             \/ AddDocuments(d)
             \/ SaveChunks(d)
             \/ HandleFailure(d)
             \/ RetryTask(d)
       /\ UNCHANGED <<deletion, call, ragVars>>
    \/ \E d \in Docs : DeleteFromIndex(d)
    \/ \E d \in Docs : DeleteDocument(d)

SpecDeletion == InitDeletion /\ [][NextDeletion]_vars

(***************************************************************************)
(* Re-submission specification: process_document is a named Celery task,   *)
(* and a second task with the document_id of an uploaded document is       *)
(* queued beside the one of the upload; the two tasks take their steps in  *)
(* any interleaving.                                                       *)
(***************************************************************************)
Resubmitted == "d1"

InitResubmit ==
    /\ chunk_size \in PipelineChunkSizes
    /\ chunk_overlap \in PipelineChunkOverlaps
    /\ text = <<>>
    /\ pages = <<>>
    /\ op = "none"
    /\ chunks = <<>>
    /\ run = IdleRun
    /\ \E src \in Sources :
         documents = [d \in Docs |->
                         IF d = Resubmitted
                         THEN [present |-> TRUE, processed |-> FALSE,
                               doc_metadata |-> EmptyDict, source |-> src]
                         ELSE NoDocument]
    /\ chunk_rows = {}
    /\ index = {}
    /\ next_id = 0
    /\ task = [t \in Docs |->
                  [IdleTask EXCEPT !.pc = "queued", !.document_id = Resubmitted]]
    /\ faults = 0
    /\ deletion = [d \in Docs |-> "none"]
    /\ call = NoCall
    /\ RagIdle

NextResubmit ==
    /\ \E t \in Docs :
          \/ LoadDocument(t)
          \/ ExtractContent(t)
          \/ ChunkContent(t)
          \/ GenerateEmbeddings(t)
          \/ AddDocuments(t)
          \/ SaveChunks(t)
          \/ HandleFailure(t)
          \/ RetryTask(t)
    /\ UNCHANGED <<deletion, call, ragVars>>

SpecResubmit == InitResubmit /\ [][NextResubmit]_vars

(***************************************************************************)
(* Chat specification: every turn queries the vector index, whose answer   *)
(* is any list of at most MaxCandidates entries in ascending distance      *)
(* order, assembles the context and answers in batch or streaming mode.    *)
(***************************************************************************)
DistanceDen == 3
Distances == { [num |-> n, den |-> DistanceDen] : n \in {0, 7, 8} }

\* the metadata of an index entry: of a present document, of a deleted
\* one, or without document_id
EntryMetadatas == { [document_id |-> d] : d \in Docs } \cup {EmptyDict}

Ascending(ds) ==
    \A i \in 1..(Len(ds) - 1) : AtLeast(ds[i + 1], ds[i])

\* the text of an index entry: the chunks of d1 are longer than an
\* excerpt, the others shorter
LongContent == [i \in 1..(ExcerptLength + 1) |-> "a"]

EntryText(md) == IF md = [document_id |-> "d1"] THEN LongContent ELSE ShortText

\* VectorStore.search: ids, documents, metadatas and distances of the
\* nearest entries, best match first
SearchResultsUpTo(candidates) ==
    UNION { { [i \in 1..n |->
                 [id |-> [uuid |-> i], document |-> EntryText(mds[i]),
                  metadata |-> mds[i], distance |-> ds[i]]] :
              mds \in [1..n -> EntryMetadatas],
              ds \in { x \in [1..n -> Distances] : Ascending(x) } } :
            n \in 0..candidates }

SearchResults == SearchResultsUpTo(MaxCandidates)

TopKContexts == {1, 3}

\* settings.max_conversation_history
DefaultHistory == 5

SuppliedConversations == {NoConversation, KnownConversation, UnknownConversation}
NewConversations == {"c2", "c3"}

Question == <<"q">>

Answers == UNION { [1..n -> Fragments] : n \in 1..MaxFragments }

\* the same, with the new Conversation committed on its own before the
\* messages are added
PersistConversationFirst(conversation_id, answer, sources, touch, commit_ok) ==
    LET created == conversation_id = NoConversation
        cid == IF created
               THEN CHOOSE c \in NewConversations : c \notin DOMAIN conversations
               ELSE conversation_id
        exists == created \/ cid \in DOMAIN conversations
        convs == IF created
                 THEN [c \in DOMAIN conversations \cup {cid} |->
                          IF c = cid THEN [updated_at |-> clock + 1]
                          ELSE conversations[c]]
                 ELSE conversations
        touched == IF ~created /\ exists /\ touch
                   THEN [convs EXCEPT ![cid] = [updated_at |-> clock + 1]]
                   ELSE convs
        msgs == messages \o
                << [conversation_id |-> cid, role |-> "user", content |-> Question,
                    sources |-> <<>>, created_at |-> clock + 2],
                   [conversation_id |-> cid, role |-> "assistant", content |-> answer,
                    sources |-> sources, created_at |-> clock + 3] >>
        committed == exists /\ commit_ok
    IN  [committed |-> committed,
         conversation_id |-> cid,
         conversations |-> IF committed THEN touched ELSE convs,
         messages |-> IF committed THEN msgs ELSE messages,
         clock |-> IF committed THEN clock + 3 ELSE clock]

\* db.add of the two messages and the commit; a message of a conversation
\* that does not exist violates the foreign key and fails the commit
Persist(conversation_id, answer, sources, touch, commit_ok) ==
    LET created == conversation_id = NoConversation
        cid == IF created
               THEN CHOOSE c \in NewConversations : c \notin DOMAIN conversations
               ELSE conversation_id
        exists == created \/ cid \in DOMAIN conversations
        convs == IF created
                 THEN [c \in DOMAIN conversations \cup {cid} |->
                          IF c = cid THEN [updated_at |-> clock + 1]
                          ELSE conversations[c]]
                 ELSE IF exists /\ touch
                 THEN [conversations EXCEPT ![cid] = [updated_at |-> clock + 1]]
                 ELSE conversations
        msgs == messages \o
                << [conversation_id |-> cid, role |-> "user", content |-> Question,
                    sources |-> <<>>, created_at |-> clock + 2],
                   [conversation_id |-> cid, role |-> "assistant", content |-> answer,
                    sources |-> sources, created_at |-> clock + 3] >>
        committed == exists /\ commit_ok
    IN  [committed |-> committed,
         conversation_id |-> cid,
         conversations |-> IF committed THEN convs ELSE conversations,
         messages |-> IF committed THEN msgs ELSE messages,
         clock |-> IF committed THEN clock + 3 ELSE clock]

\* a request is served while none is in progress; the number of stored
\* messages is capped
CanAsk(cap) ==
    /\ turn.pc = "idle"
    /\ Len(messages) + 2 <= cap
    /\ \E c \in NewConversations : c \notin DOMAIN conversations

CanStartTurn == CanAsk(MaxMessages)

InitRag ==
    /\ chunk_size \in PipelineChunkSizes
    /\ chunk_overlap \in PipelineChunkOverlaps
    /\ text = <<>>
    /\ pages = <<>>
    /\ op = "none"
    /\ chunks = <<>>
    /\ run = IdleRun
    /\ documents \in { f \in [Docs -> {NoDocument,
                                       [present |-> TRUE, processed |-> TRUE,
                                        doc_metadata |-> EmptyDict,
                                        source |-> [content |-> ShortText]]}] :
                        f["d1"].present }
    /\ chunk_rows = {}
    /\ index = {}
    /\ next_id = 0
    /\ task = [d \in Docs |-> IdleTask]
    /\ faults = 0
    /\ deletion = [d \in Docs |-> "none"]
    /\ call = NoCall
    /\ top_k_context \in TopKContexts
    /\ max_conversation_history = DefaultHistory
    /\ conversations = [c \in {KnownConversation} |-> [updated_at |-> 0]]
    /\ messages = <<>>
    /\ clock = 0
    /\ turn = IdleTurn

\* RAGService.answer_question (rag_service.py:232-356)
answer_question(conversation_id, candidates) ==
    /\ \E results \in candidates, retrieved \in BOOLEAN, generated \in BOOLEAN,
          answer \in Answers, commit_ok \in BOOLEAN :
         LET cs == StructuredChunks(results)
             built == build_context(cs, top_k_context)
             started == [IdleTurn EXCEPT !.mode = "batch",
                                         !.conversation_id = conversation_id]
             assembled == [started EXCEPT !.chunks = cs,
                                          !.relevant = built.relevant,
                                          !.context = built.context,
                                          !.sources = built.sources,
                                          !.lookups = built.lookups]
         IN  IF ~retrieved
             THEN /\ turn' = [started EXCEPT !.pc = "error"]
                  /\ UNCHANGED <<conversations, messages, clock>>
             ELSE IF built.context = <<>>
             THEN LET saved == Persist(conversation_id, <<InsufficientBatch>>,
                                       <<>>, TRUE, commit_ok)
                  IN  /\ turn' = [assembled EXCEPT
                                    !.pc = IF saved.committed THEN "completed" ELSE "error",
                                    !.conversation_id = saved.conversation_id,
                                    !.answer = <<InsufficientBatch>>,
                                    !.sources = <<>>]
                      /\ conversations' = saved.conversations
                      /\ messages' = saved.messages
                      /\ clock' = saved.clock
             ELSE IF ~generated
             THEN /\ turn' = [assembled EXCEPT
                                !.pc = "error",
                                !.history = ConversationHistory(conversation_id),
                                !.generation_calls = 1]
                  /\ UNCHANGED <<conversations, messages, clock>>
             ELSE LET saved == Persist(conversation_id, answer,
                                       built.sources, TRUE, commit_ok)
                  IN  /\ turn' = [assembled EXCEPT
                                    !.pc = IF saved.committed THEN "completed" ELSE "error",
                                    !.conversation_id = saved.conversation_id,
                                    !.history = ConversationHistory(conversation_id),
                                    !.generation_calls = 1,
                                    !.answer = answer]
                      /\ conversations' = saved.conversations
                      /\ messages' = saved.messages
                      /\ clock' = saved.clock
    /\ UNCHANGED <<top_k_context, max_conversation_history>>

AnswerQuestion(conversation_id) ==
    /\ CanStartTurn
    /\ answer_question(conversation_id, SearchResults)

\* RAGService.answer_question_stream up to its first yield
\* (rag_service.py:358-401)
answer_question_stream(conversation_id, candidates) ==
    /\ \E results \in candidates, retrieved \in BOOLEAN :
         LET cs == StructuredChunks(results)
             built == build_context(cs, top_k_context)
             started == [IdleTurn EXCEPT !.mode = "stream",
                                         !.conversation_id = conversation_id]
             assembled == [started EXCEPT !.chunks = cs,
                                          !.relevant = built.relevant,
                                          !.context = built.context,
                                          !.sources = built.sources,
                                          !.lookups = built.lookups]
         IN  turn' = IF ~retrieved
                     THEN [started EXCEPT !.pc = "error"]
                     ELSE IF built.context = <<>>
                     THEN [assembled EXCEPT !.pc = "completed",
                                            !.forwarded = <<InsufficientStream>>,
                                            !.answer = <<InsufficientStream>>]
                     ELSE [assembled EXCEPT
                             !.pc = "streaming",
                             !.history = ConversationHistory(conversation_id),
                             !.generation_calls = 1]
    /\ UNCHANGED <<top_k_context, max_conversation_history, conversations, messages, clock>>

StartStream(conversation_id) ==
    /\ CanStartTurn
    /\ answer_question_stream(conversation_id, SearchResults)

\* one iteration of the async for (rag_service.py:403-408): the fragment
\* is appended to full_answer and yielded to the consumer
ForwardFragment ==
    /\ turn.pc = "streaming"
    /\ Len(turn.forwarded) < MaxFragments
    /\ \E f \in Fragments :
         turn' = [turn EXCEPT !.answer = Append(@, f),
                              !.forwarded = Append(@, f)]
    /\ UNCHANGED <<top_k_context, max_conversation_history, conversations, messages, clock>>

\* the provider's stream raises
StreamFails ==
    /\ turn.pc = "streaming"
    /\ turn' = [turn EXCEPT !.pc = "error"]
    /\ UNCHANGED <<top_k_context, max_conversation_history, conversations, messages, clock>>

\* the consumer goes away and the generator saves what it has produced so
\* far, as a finally clause around the loop would
CancelStreamSavingPartial ==
    /\ turn.pc = "streaming"
    /\ LET saved == Persist(turn.conversation_id, turn.answer, turn.sources,
                            FALSE, TRUE)
       IN  /\ turn' = [turn EXCEPT !.pc = "cancelled"]
           /\ conversations' = saved.conversations
           /\ messages' = saved.messages
           /\ clock' = saved.clock
    /\ UNCHANGED <<top_k_context, max_conversation_history>>

\* the consumer goes away: the generator is closed at its yield
CancelStream ==
    /\ turn.pc = "streaming"
    /\ turn' = [turn EXCEPT !.pc = "cancelled"]
    /\ UNCHANGED <<top_k_context, max_conversation_history, conversations, messages, clock>>

\* the stream is exhausted: rag_service.py:410-439
FinishStream ==
    /\ turn.pc = "streaming"
    /\ \E commit_ok \in BOOLEAN :
         LET saved == Persist(turn.conversation_id, turn.answer, turn.sources,
                              FALSE, commit_ok)
         IN  /\ turn' = [turn EXCEPT
                           !.pc = IF saved.committed THEN "completed" ELSE "error",
                           !.conversation_id = saved.conversation_id]
             /\ conversations' = saved.conversations
             /\ messages' = saved.messages
             /\ clock' = saved.clock
    /\ UNCHANGED <<top_k_context, max_conversation_history>>

\* the request is over: ask_question returns or raises its HTTP error, the
\* event stream ends (routers/chat.py:42-50, 80-84)
EndRequest ==
    /\ turn.pc \in {"completed", "error", "cancelled"}
    /\ turn' = IdleTurn
    /\ UNCHANGED <<top_k_context, max_conversation_history, conversations, messages, clock>>

NextRag ==
    /\ \/ \E c \in SuppliedConversations : AnswerQuestion(c)
       \/ \E c \in SuppliedConversations : StartStream(c)
       \/ ForwardFragment
       \/ StreamFails
       \/ CancelStream
       \/ FinishStream
       \/ EndRequest
    /\ UNCHANGED <<chunkerVars, pipelineVars, deletion, call>>

SpecRag == InitRag /\ [][NextRag]_vars

(***************************************************************************)
(* History specification: the store already holds the messages of earlier  *)
(* turns of two conversations, and one more turn is answered.              *)
(***************************************************************************)
Digits == <<"1", "2", "3", "4", "5", "6", "7", "8", "9">>

HistoryDepths == {1, 2}

\* the two messages of each earlier turn, in the order of their creation
StoredMessages(owner) ==
    [p \in 1..(2 * Len(owner)) |->
        LET j == (p + 1) \div 2
        IN  [conversation_id |-> owner[j],
             role |-> IF p % 2 = 1 THEN "user" ELSE "assistant",
             content |-> <<IF p % 2 = 1 THEN "q" ELSE "a", Digits[j]>>,
             sources |-> <<>>,
             created_at |-> p]]

InitHistory ==
    /\ chunk_size \in PipelineChunkSizes
    /\ chunk_overlap \in PipelineChunkOverlaps
    /\ text = <<>>
    /\ pages = <<>>
    /\ op = "none"
    /\ chunks = <<>>
    /\ run = IdleRun
    /\ documents = [d \in Docs |->
                       [present |-> TRUE, processed |-> TRUE,
                        doc_metadata |-> EmptyDict,
                        source |-> [content |-> ShortText]]]
    /\ chunk_rows = {}
    /\ index = {}
    /\ next_id = 0
    /\ task = [d \in Docs |-> IdleTask]
    /\ faults = 0
    /\ deletion = [d \in Docs |-> "none"]
    /\ call = NoCall
    /\ top_k_context = 1
    /\ max_conversation_history \in HistoryDepths
    /\ conversations = [c \in {KnownConversation, OtherConversation} |->
                           [updated_at |-> 0]]
    /\ messages \in { StoredMessages(owner) :
                         owner \in [1..MaxStoredTurns ->
                                       {KnownConversation, OtherConversation}] }
    /\ clock = 2 * MaxStoredTurns
    /\ turn = IdleTurn

CanAskAgain == CanAsk(2 * MaxStoredTurns + 2)

AnswerWithHistory(conversation_id) ==
    /\ CanAskAgain
    /\ answer_question(conversation_id, SearchResultsUpTo(1))

StreamWithHistory(conversation_id) ==
    /\ CanAskAgain
    /\ answer_question_stream(conversation_id, SearchResultsUpTo(1))

NextHistory ==
    /\ \/ \E c \in SuppliedConversations : AnswerWithHistory(c)
       \/ \E c \in SuppliedConversations : StreamWithHistory(c)
       \/ ForwardFragment
       \/ StreamFails
       \/ CancelStream
       \/ FinishStream
       \/ EndRequest
    /\ UNCHANGED <<chunkerVars, pipelineVars, deletion, call>>

SpecHistory == InitHistory /\ [][NextHistory]_vars

(***************************************************************************)
(* Service specification: direct calls of the embedding gateway with any   *)
(* list of at most MaxTexts texts and any pattern of provider failures.    *)
(***************************************************************************)
EmbeddedTexts == {ShortText, TwoParagraphs}
TextLists == UNION { [1..n -> EmbeddedTexts] : n \in 0..MaxTexts }
BatchSizes == {1, 2, 100}

\* the arguments of add_documents
EmbeddingLists == UNION { [1..n -> {ZeroVector, EmbeddingOf(ShortText)}] : n \in 0..MaxTexts }
MetadataLists == UNION { [1..n -> {[document_id |-> "d1", chunk_index |-> 0]}] : n \in 0..MaxTexts }
SuppliedIds == {[uuid |-> 1], [name |-> "x"]}
IdLists == UNION { [1..n -> SuppliedIds] : n \in 0..MaxTexts }

\* the entry the collection holds before the call, if any
HeldEntry ==
    [id |-> [uuid |-> 1], embedding |-> EmbeddingOf(TwoParagraphs),
     document |-> TwoParagraphs,
     metadata |-> Stringified([document_id |-> "d2", chunk_index |-> 0])]

InitServices ==
    /\ chunk_size \in PipelineChunkSizes
    /\ chunk_overlap \in PipelineChunkOverlaps
    /\ text = <<>>
    /\ pages = <<>>
    /\ op = "none"
    /\ chunks = <<>>
    /\ run = IdleRun
    /\ documents = [d \in Docs |-> NoDocument]
    /\ chunk_rows = {}
    /\ \/ index = {} /\ next_id = 0
       \/ index = {HeldEntry} /\ next_id = 1
    /\ task = [d \in Docs |-> IdleTask]
    /\ faults = 0
    /\ deletion = [d \in Docs |-> "none"]
    /\ call = NoCall
    /\ RagIdle

\* VectorStore.add_documents(embeddings, texts, metadatas, ids=None)
AddDocumentsCall ==
    /\ call.op = "none"
    /\ \E embeddings \in EmbeddingLists, texts \in TextLists, metadatas \in MetadataLists :
         LET r == add_documents(index, next_id, embeddings, texts, metadatas)
         IN  /\ call' = [op |-> "add_documents", supplied |-> FALSE,
                         embeddings |-> embeddings, texts |-> texts,
                         metadatas |-> metadatas, before |-> index,
                         raised |-> r.raised, result |-> r.ids]
             /\ index' = r.index
             /\ next_id' = r.next_id
    /\ UNCHANGED <<chunkerVars, documents, chunk_rows, task, faults, deletion, ragVars>>

\* VectorStore.add_documents(embeddings, texts, metadatas, ids)
AddDocumentsWithIdsCall ==
    /\ call.op = "none"
    /\ \E embeddings \in EmbeddingLists, texts \in TextLists, metadatas \in MetadataLists,
          ids \in IdLists, skip_existing \in BOOLEAN :
         LET r == add_documents_with_ids(index, next_id, embeddings, texts, metadatas,
                                         ids, skip_existing)
         IN  /\ call' = [op |-> "add_documents", supplied |-> TRUE, ids |-> ids,
                         embeddings |-> embeddings, texts |-> texts,
                         metadatas |-> metadatas, before |-> index,
                         raised |-> r.raised, result |-> r.ids]
             /\ index' = r.index
             /\ next_id' = r.next_id
    /\ UNCHANGED <<chunkerVars, documents, chunk_rows, task, faults, deletion, ragVars>>

\* EmbeddingService.generate_embeddings(texts, batch_size)
EmbedMany ==
    /\ call.op = "none"
    /\ \E texts \in TextLists, batch_size \in BatchSizes :
         \E attempts \in [1..Len(texts) -> [1..StopAfterAttempt -> BOOLEAN]] :
             call' = [op |-> "generate_embeddings", texts |-> texts,
                      attempts |-> attempts, batch_size |-> batch_size,
                      raised |-> FALSE,
                      result |-> generate_embeddings(texts, attempts, batch_size)]
    /\ UNCHANGED <<chunkerVars, pipelineVars, deletion, ragVars>>

\* GeminiClient.generate_embedding(text); attempts also tells how a call
\* after the last permitted one would end
EmbedOne ==
    /\ call.op = "none"
    /\ \E t \in EmbeddedTexts, attempts \in [1..(StopAfterAttempt + 1) -> BOOLEAN] :
         LET r == generate_embedding(t, attempts)
         IN  call' = [op |-> "generate_embedding", text |-> t, attempts |-> attempts,
                      raised |-> r.raised, result |-> r.embedding,
                      calls |-> r.calls, error |-> r.error]
    /\ UNCHANGED <<chunkerVars, pipelineVars, deletion, ragVars>>

NextServices ==
    \/ EmbedOne
    \/ EmbedMany
    \/ AddDocumentsCall
    \/ AddDocumentsWithIdsCall

SpecServices == InitServices /\ [][NextServices]_vars

(***************************************************************************)
(* Properties of the chunker.                                              *)
(***************************************************************************)
IsSubstring(u, c) ==
    \E k \in 0..(Len(c) - Len(u)) : SubSeq(c, k + 1, k + Len(u)) = u

IsSuffix(u, c) ==
    Len(u) <= Len(c) /\ SubSeq(c, Len(c) - Len(u) + 1, Len(c)) = u

RECURSIVE SentencesOf(_)
SentencesOf(ps) ==
    IF ps = <<>> THEN <<>>
    ELSE split_into_sentences(Head(ps)) \o SentencesOf(Tail(ps))

\* the sentences of all paragraphs of a text, in order
InputSentences(s) == SentencesOf(split_into_paragraphs(s))

\* every unit from the k-th on occurs in a chunk, the chunks being taken in
\* non-decreasing order from the j-th on
RECURSIVE CoveredFrom(_, _, _, _)
CoveredFrom(units, k, cs, j) ==
    IF k > Len(units) THEN TRUE
    ELSE LET js == { x \in j..Len(cs) : IsSubstring(units[k], cs[x].content) }
         IN  js # {} /\ CoveredFrom(units, k + 1, cs,
                                     CHOOSE x \in js : \A y \in js : x <= y)

IndexedFromZero(cs) ==
    \A i \in 1..Len(cs) :
        /\ cs[i].metadata.chunk_index = i - 1
        /\ cs[i].metadata.total_chunks = Len(cs)

\* C1: every chunk returned by chunk_text has chunk_index equal to its
\* position in the result (0..N-1) and total_chunks equal to N, also when a
\* paragraph was split at sentence level into several chunks.
C1_ChunkIndexIsPosition ==
    op = "chunk_text" => IndexedFromZero(chunks)

\* C2: for every text of at least 10 characters after trimming, every
\* sentence of every paragraph occurs in full in the chunk contents, in
\* order: no part of the input is dropped.
C2_NothingDropped ==
    (op = "chunk_text" /\ ~TooShort(text))
        => CoveredFrom(InputSentences(text), 1, chunks, 1)

\* C3: chunk_text returns the empty sequence exactly when the text is empty
\* or shorter than 10 characters after trimming, and every returned chunk has
\* non-empty content.
C3_EmptyExactlyWhenTooShort ==
    op = "chunk_text" =>
        /\ (chunks = <<>>) <=> TooShort(text)
        /\ \A i \in 1..Len(chunks) : chunks[i].content # <<>>

\* the chunks chunk_text returns for every page, one page after the other,
\* as [content, page_number]
RECURSIVE PerPageChunks(_, _, _)
PerPageChunks(ps, size, overlap) ==
    IF ps = <<>> THEN <<>>
    ELSE LET r == chunk_text(<<[page_number |-> Head(ps).page_number]>>,
                             Head(ps).text, 1, size, overlap).chunks
         IN  [ i \in 1..Len(r) |-> [content |-> r[i].content,
                                     page_number |-> Head(ps).page_number] ]
             \o PerPageChunks(Tail(ps), size, overlap)

\* C4: chunk_document_with_pages returns the per-page chunk sequences in page
\* order, each chunk with its page's page_number, chunk_index renumbered
\* document-wide to 0..N-1 and total_chunks = N; a page shorter than 10
\* characters after trimming contributes no chunk.
C4_PagesReindexedGlobally ==
    op = "chunk_document_with_pages" =>
        /\ [ i \in 1..Len(chunks) |-> [content |-> chunks[i].content,
                                        page_number |-> chunks[i].metadata.page_number] ]
             = PerPageChunks(pages, chunk_size, chunk_overlap)
        /\ IndexedFromZero(chunks)

\* "\n\n" between two paragraphs of one chunk (chunker.py:116)
SeparatorTolerance == 2

IsPrefix(u, c) == Len(u) <= Len(c) /\ SubSeq(c, 1, Len(u)) = u

\* the chunks flushed by the sentence loop are those that carry the
\* caller's own metadata dict, the first object of the heap
FlushedBySentenceLoop(c) == c.ref = 1

\* C19: in the sentence-level split of a paragraph longer than chunk_size,
\* whenever a sentence buffer is flushed as a chunk, the next emitted chunk
\* starts with the last chunk_overlap characters of the flushed chunk.
C19_OverlapCarriedAfterFlush ==
    op = "chunk_text" =>
        \A i \in 1..(Len(chunks) - 1) :
            FlushedBySentenceLoop(chunks[i]) =>
                IsPrefix(OverlapSeed(chunks[i].content, chunk_overlap),
                         chunks[i + 1].content)

(***************************************************************************)
(* Properties of the ingestion pipeline.                                   *)
(***************************************************************************)
RowsOf(d) == { r \in chunk_rows : r.document_id = d }

\* C6: when a run for a document completes without error, the committed
\* document has processed = true and exactly N Chunk records, N the number
\* of chunks of the chunker; the i-th record has chunk_index i (0..N-1),
\* the content of the i-th chunk and the i-th id the index upsert returned.
C6_SuccessPersistsChunks ==
    \A d \in Docs :
        task[d].pc = "succeeded" =>
            LET cs == task[d].chunks_data
                ids == task[d].chunk_ids
                N == Len(cs)
            IN  /\ documents[d].present
                /\ documents[d].processed
                /\ N >= 1
                /\ Len(ids) = N
                /\ Cardinality(RowsOf(d)) = N
                /\ \A i \in 1..N :
                      \E r \in RowsOf(d) :
                          /\ r.chunk_index = i - 1
                          /\ r.content = cs[i].content
                          /\ r.embedding_id = ids[i]

\* a run that succeeded on a retry, for a paged document whose first page
\* was split by sentences into chunks that share one metadata dict
C6_Witness ==
    \E d \in Docs :
        /\ task[d].pc = "succeeded"
        /\ task[d].retries >= 1
        /\ Len(task[d].chunks_data) >= 3
        /\ \E i \in 1..Len(task[d].chunks_data) :
              task[d].chunks_data[i].metadata.chunk_index # i - 1
        /\ Cardinality(RowsOf(d)) = Len(task[d].chunks_data)

\* C7: when a stage of a run fails after the document was loaded, the run
\* ends with the document present, processed = false, an error annotation
\* persisted in the document's metadata and no Chunk record of that run
\* persisted, and the failure is raised to the scheduler.
C7_FailureLeavesAnnotatedDocument ==
    \A d \in Docs :
        (task[d].pc = "raised" /\ task[d].error # "Document not found") =>
            /\ documents[d].present
            /\ ~documents[d].processed
            /\ "processing_error" \in DOMAIN documents[d].doc_metadata
            /\ \A r \in chunk_rows : r.embedding_id \notin SeqToSet(task[d].chunk_ids)

\* C17: a task that fails on every attempt is retried at most 3 times (4
\* executions); the retry after the failure of attempt k is scheduled with
\* a delay of 60 * 2^k seconds; after the last failure no attempt is
\* scheduled any more and the document stays processed = false.
C17_RetryPolicy ==
    /\ [](\A d \in Docs :
             /\ task[d].retries \in 0..3
             /\ task[d].pc = "given_up" =>
                   /\ task[d].retries = 3
                   /\ ~documents[d].processed)
    /\ [][\A d \in Docs :
             /\ (task[d].pc = "raised" /\ task'[d].pc = "queued") =>
                   /\ task[d].retries < 3
                   /\ task'[d].retries = task[d].retries + 1
                   /\ task'[d].countdown = 60 * (2 ^ task[d].retries)
             /\ (task[d].pc = "raised" /\ task[d].retries = 3) =>
                   task'[d].pc \in {"raised", "given_up"}
             /\ task[d].pc = "given_up" => task'[d] = task[d]]_vars

\* a task that failed four times and was given up
C17_Witness ==
    \E d \in Docs :
        /\ task[d].pc = "given_up"
        /\ task[d].retries = 3
        /\ task[d].countdown = 0
        /\ documents[d].present
        /\ ~documents[d].processed

(***************************************************************************)
(* Properties of context assembly and of the answer modes.                 *)
(***************************************************************************)
Assembled == turn.pc \in {"streaming", "completed", "cancelled"}

\* C8: when no retrieved chunk survives the relevance filter, the context
\* is empty and there is no source reference, and the batch and the
\* streaming mode both answer with their fixed insufficient-information
\* message without any generation call.
C8_NoSurvivorNoGeneration ==
    (turn.mode # "none" /\ turn.pc # "idle" /\ turn.relevant = <<>>) =>
        /\ turn.context = <<>>
        /\ turn.sources = <<>>
        /\ turn.generation_calls = 0
        /\ turn.pc # "streaming"
        /\ turn.pc = "completed" =>
              /\ turn.mode = "batch" => turn.answer = <<InsufficientBatch>>
              /\ turn.mode = "stream" =>
                    /\ turn.forwarded = <<InsufficientStream>>
                    /\ turn.answer = <<InsufficientStream>>

\* a streaming turn and candidates that were all filtered out
C8_Witness ==
    /\ turn.mode = "stream"
    /\ turn.pc = "completed"
    /\ turn.chunks # <<>>
    /\ turn.relevant = <<>>
    /\ turn.forwarded = <<InsufficientStream>>

Eligible(cs) == { i \in 1..Len(cs) : AtLeast(cs[i].relevance_score, relevance_threshold) }

Min(a, b) == IF a < b THEN a ELSE b

\* the positions in cs of the chunks of the selection, if the selection is
\* cs restricted to increasing positions
IsSelectionAt(sel, cs, pos) ==
    /\ \A j \in 1..Len(sel) : sel[j] = cs[pos[j]]
    /\ \A j \in 1..(Len(sel) - 1) : pos[j] < pos[j + 1]

\* C9: the chunks that survive into the context are the top_k_context
\* highest-scored candidates among those with score >= relevance_threshold
\* (the threshold itself retained, anything lower dropped), in
\* non-increasing score order, equal scores in the index's return order.
C9_SurvivorsAreTopK ==
    (Assembled \/ (turn.pc = "error" /\ turn.chunks # <<>>)) =>
        LET cs == turn.chunks
            sel == turn.relevant
        IN  /\ Len(sel) = Min(top_k_context, Cardinality(Eligible(cs)))
            /\ \E pos \in [1..Len(sel) -> 1..Len(cs)] :
                  /\ IsSelectionAt(sel, cs, pos)
                  /\ \A j \in 1..Len(sel) : pos[j] \in Eligible(cs)
                  /\ \A i \in Eligible(cs) :
                        (\A j \in 1..Len(sel) : pos[j] # i) =>
                            \A j \in 1..Len(sel) :
                                /\ AtLeast(sel[j].relevance_score, cs[i].relevance_score)
                                /\ sel[j].relevance_score = cs[i].relevance_score
                                     => pos[j] < i
            /\ \A j \in 1..(Len(sel) - 1) :
                  AtLeast(sel[j].relevance_score, sel[j + 1].relevance_score)

\* more candidates at or above the threshold than top_k_context, one of
\* the survivors exactly at the threshold, and a candidate below it
C9_Witness ==
    /\ Assembled
    /\ Cardinality(Eligible(turn.chunks)) > top_k_context
    /\ Len(turn.relevant) = top_k_context
    /\ \E j \in 1..Len(turn.relevant) :
          turn.relevant[j].relevance_score = relevance_threshold
    /\ \E i \in 1..Len(turn.chunks) : i \notin Eligible(turn.chunks)

Resolvable(c) == DocumentIdOf(c) # None /\ get_document_info(DocumentIdOf(c)).found

\* the positions in the selection of the first chunk of each resolvable
\* document
FirstChunks(sel) ==
    { j \in 1..Len(sel) :
        /\ Resolvable(sel[j])
        /\ \A h \in 1..(j - 1) : DocumentIdOf(sel[h]) # DocumentIdOf(sel[j]) }

\* C10: the source references are one per distinct resolvable document
\* among the surviving chunks, in order of first occurrence, each with the
\* relevance score of the first surviving chunk of its document.
C10_OneSourcePerDocument ==
    (Assembled /\ turn.relevant # <<>>) =>
        LET sel == turn.relevant
            refs == turn.sources
        IN  /\ Len(refs) = Cardinality(FirstChunks(sel))
            /\ \A a, b \in 1..Len(refs) :
                  a # b => refs[a].document_id # refs[b].document_id
            /\ \E pos \in [1..Len(refs) -> 1..Len(sel)] :
                  /\ \A a \in 1..Len(refs) :
                        /\ pos[a] \in FirstChunks(sel)
                        /\ refs[a].document_id = DocumentIdOf(sel[pos[a]])
                        /\ refs[a].relevance_score = sel[pos[a]].relevance_score
                  /\ \A a \in 1..(Len(refs) - 1) : pos[a] < pos[a + 1]

\* two surviving chunks of one present document with different scores, and
\* a surviving chunk of a document that is gone
C10_Witness ==
    /\ Assembled
    /\ Len(turn.sources) = 1
    /\ \E i, j \in 1..Len(turn.relevant) :
          /\ i < j
          /\ DocumentIdOf(turn.relevant[i]) = DocumentIdOf(turn.relevant[j])
          /\ Resolvable(turn.relevant[i])
          /\ turn.relevant[i].relevance_score # turn.relevant[j].relevance_score
    /\ \E i \in 1..Len(turn.relevant) :
          DocumentIdOf(turn.relevant[i]) # None /\ ~Resolvable(turn.relevant[i])


\* C20: within one build_context call the document lookup is issued at
\* most once per distinct document id among the surviving chunks, also for
\* ids that cannot be resolved.
C20_OneLookupPerDocument ==
    Assembled =>
        \A a, b \in 1..Len(turn.lookups) :
            a # b => turn.lookups[a] # turn.lookups[b]

\* the surviving chunks whose document id names no row of the relational
\* store
Unresolvable(c) == DocumentIdOf(c) # None /\ ~get_document_info(DocumentIdOf(c)).found

\* C21: a surviving chunk whose owning document cannot be resolved in the
\* relational store is dropped at context assembly: it yields no source
\* reference and its text is not part of the context passed to generation.
C21_UnresolvableChunkDropped ==
    Assembled =>
        \A i \in 1..Len(turn.relevant) :
            Unresolvable(turn.relevant[i]) =>
                /\ \A a \in 1..Len(turn.sources) :
                      turn.sources[a].document_id # DocumentIdOf(turn.relevant[i])
                /\ \A p \in 1..Len(turn.context) :
                      turn.context[p] # ContextPart(i, turn.relevant[i])

\* the surviving chunk a source reference was made from: the first one of
\* its document
CitedChunk(ref) ==
    turn.relevant[CHOOSE j \in FirstChunks(turn.relevant) :
                      DocumentIdOf(turn.relevant[j]) = ref.document_id]

\* C22 as stated: the excerpt of a source reference is never longer than
\* 200 characters and equals the content of the first surviving chunk of
\* its document when that content has at most 200 characters.
C22_ExcerptAsClaimed ==
    Assembled =>
        \A a \in 1..Len(turn.sources) :
            LET content == CitedChunk(turn.sources[a]).content
                excerpt == turn.sources[a].chunk_content
            IN  /\ Len(excerpt) <= 200
                /\ Len(content) <= 200 => excerpt = content

\* C22: the excerpt of a source reference is the first 200 characters of
\* the content of the first surviving chunk of its document followed by
\* the three characters "...": it is never longer than 203 characters, and
\* it is the whole content followed by "..." when the content has at most
\* 200 characters.
C22_ExcerptIsPrefixAndEllipsis ==
    Assembled =>
        \A a \in 1..Len(turn.sources) :
            LET content == CitedChunk(turn.sources[a]).content
                excerpt == turn.sources[a].chunk_content
                kept == IF Len(content) <= 200 THEN Len(content) ELSE 200
            IN  /\ Len(excerpt) = kept + 3
                /\ Len(excerpt) <= 203
                /\ \A p \in 1..kept : excerpt[p] = content[p]
                /\ \A p \in (kept + 1)..(kept + 3) : excerpt[p] = "."

\* one reference made from a chunk longer than 200 characters, another
\* from a shorter one
C22_Witness ==
    /\ Assembled
    /\ \E a, b \in 1..Len(turn.sources) :
          /\ Len(CitedChunk(turn.sources[a]).content) > 200
          /\ Len(turn.sources[a].chunk_content) = 203
          /\ Len(CitedChunk(turn.sources[b]).content) < 200

(***************************************************************************)
(* Properties of the conversation turns.                                   *)
(***************************************************************************)
\* C11: a streaming turn that is cancelled by its consumer, or that fails
\* before the fragment stream is exhausted, persists nothing: no Message
\* and no Conversation, whatever number of fragments was forwarded.
C11_AbortedStreamPersistsNothing ==
    [][(turn'.mode = "stream" /\ turn'.pc \in {"cancelled", "error"}
          /\ turn.pc \in {"idle", "streaming"})
       => (messages' = messages /\ conversations' = conversations)]_vars

\* a stream cancelled after fragments were forwarded, nothing stored
C11_Witness ==
    /\ turn.mode = "stream"
    /\ turn.pc = "cancelled"
    /\ Len(turn.forwarded) >= 1
    /\ turn.conversation_id = NoConversation
    /\ messages = <<>>


\* the two Message rows a turn appends: the question, then the answer
TurnMessages(before, after) ==
    /\ Len(after) = Len(before) + 2
    /\ SubSeq(after, 1, Len(before)) = before
    /\ after[Len(before) + 1].role = "user"
    /\ after[Len(before) + 1].content = Question
    /\ after[Len(before) + 2].role = "assistant"

\* C12: a streaming turn whose stream runs to normal completion stores
\* exactly 2 new Messages: the user question, then the assistant answer
\* whose content is the concatenation of the fragments forwarded.
C12_CompletedStreamPersistsTurn ==
    [][(turn'.mode = "stream" /\ turn'.pc = "completed" /\ turn.pc # "completed")
       => /\ TurnMessages(messages, messages')
          /\ messages'[Len(messages')].content = turn'.forwarded]_vars


(***************************************************************************)
(* Properties of document deletion.                                        *)
(***************************************************************************)
RowsIn(rows, d) == { r \in rows : r.document_id = d }

\* C13: when delete_document succeeds for a document, no Chunk record and
\* no index entry of that document remains, and the Chunk records and the
\* index entries of every other document are what they were.
C13_DeleteRemovesChunksAndEntries ==
    [][\A d \in Docs :
          /\ (deletion[d] # "deleted" /\ deletion'[d] = "deleted") =>
                /\ RowsIn(chunk_rows', d) = {}
                /\ EntriesOf(index', d) = {}
          /\ deletion'[d] # deletion[d] =>
                \A e \in Docs \ {d} :
                    /\ RowsIn(chunk_rows', e) = RowsIn(chunk_rows, e)
                    /\ EntriesOf(index', e) = EntriesOf(index, e)]_vars


\* C15: a batch turn stores the new Conversation (when none was supplied),
\* the user Message and the assistant Message in one transaction: after
\* answer_question all of them are stored or none of them is.
C15_BatchTurnIsAtomic ==
    [][(turn.pc = "idle" /\ turn'.mode = "batch") =>
          \/ /\ turn'.pc = "completed"
             /\ TurnMessages(messages, messages')
             /\ \A m \in Len(messages) + 1 .. Len(messages') :
                   messages'[m].conversation_id = turn'.conversation_id
             /\ turn'.conversation_id \in DOMAIN conversations'
             /\ DOMAIN conversations' = DOMAIN conversations \cup {turn'.conversation_id}
          \/ /\ turn'.pc = "error"
             /\ messages' = messages
             /\ conversations' = conversations]_vars

\* a generated answer stored together with its new conversation
C15_Witness ==
    /\ turn.mode = "batch"
    /\ turn.pc = "completed"
    /\ turn.generation_calls = 1
    /\ turn.conversation_id \in NewConversations
    /\ turn.conversation_id \in DOMAIN conversations
    /\ Len(messages) = 2

\* C16: every completed turn, batch or streaming, on an existing
\* conversation supplied by identity advances that conversation's
\* updated_at.
C16_TurnAdvancesUpdatedAt ==
    [][(turn'.pc = "completed" /\ turn.pc # "completed"
          /\ turn'.conversation_id \in DOMAIN conversations)
       => conversations'[turn'.conversation_id].updated_at
            > conversations[turn'.conversation_id].updated_at]_vars

(***************************************************************************)
(* Properties of the embedding gateway and of the vector index.            *)
(***************************************************************************)
Exhausted(attempts) == \A k \in 1..StopAfterAttempt : ~attempts[k]

\* C14: embed_many returns one vector per input text in input order and
\* never raises because of an item: an item whose embed_one failed on all
\* its attempts is a zero vector, every other item the provider's vector.
C14_OneVectorPerText ==
    call.op = "generate_embeddings" =>
        /\ ~call.raised
        /\ Len(call.result) = Len(call.texts)
        /\ \A i \in 1..Len(call.texts) :
              call.result[i] = IF Exhausted(call.attempts[i])
                               THEN ZeroVector
                               ELSE EmbeddingOf(call.texts[i])

\* a batch of two different texts cut into two batches; the first item
\* fails on every attempt, the second succeeds on its last attempt
C14_Witness ==
    /\ call.op = "generate_embeddings"
    /\ call.batch_size = 1
    /\ Len(call.texts) >= 2
    /\ call.texts[1] # call.texts[2]
    /\ Exhausted(call.attempts[1])
    /\ call.attempts[2] = [k \in 1..StopAfterAttempt |-> k = StopAfterAttempt]
    /\ call.result[1] = ZeroVector
    /\ call.result[2] = EmbeddingOf(call.texts[2])


LengthsDiffer(c) ==
    Len(c.embeddings) # Len(c.texts) \/ Len(c.embeddings) # Len(c.metadatas)

\* the entries the call was asked to add, paired by position
EntriesAdded(c) ==
    { [id |-> c.result[i], embedding |-> c.embeddings[i], document |-> c.texts[i],
       metadata |-> Stringified(c.metadatas[i])] : i \in 1..Len(c.embeddings) }

Succeeded(c) ==
    /\ ~c.raised
    /\ Len(c.result) = Len(c.embeddings)
    /\ \A i, j \in 1..Len(c.result) : i # j => c.result[i] # c.result[j]
    /\ ~c.supplied => \A i \in 1..Len(c.result) :
                          \A e \in c.before : e.id # c.result[i]
    /\ index \ c.before = EntriesAdded(c)
    /\ c.before \subseteq index

Failed(c) == c.raised /\ index = c.before

\* C18 as claimed: add_documents fails, adding no entry, when embeddings,
\* texts and metadatas differ in length; otherwise it returns one id per
\* embedding (fresh and pairwise distinct when none are supplied) and the
\* index gains exactly those entries.
C18_UpsertAsClaimed ==
    call.op = "add_documents" =>
        IF LengthsDiffer(call) THEN Failed(call) ELSE Succeeded(call)

\* C18 as amended: add_documents fails, adding no entry, when embeddings or
\* texts is empty or when embeddings, texts and metadatas differ in length;
\* otherwise, when no ids are supplied, it returns one fresh id per
\* embedding, pairwise distinct, and the index gains exactly those entries.
C18_UpsertRejectsEmptyAndMismatch ==
    call.op = "add_documents" =>
        /\ (call.embeddings = <<>> \/ call.texts = <<>> \/ LengthsDiffer(call))
              => Failed(call)
        /\ (~call.supplied /\ call.embeddings # <<>> /\ call.texts # <<>>
               /\ ~LengthsDiffer(call))
              => Succeeded(call)

\* two different entries added with generated ids to a collection that
\* already held one
C18_Witness ==
    /\ call.op = "add_documents"
    /\ ~call.supplied
    /\ ~call.raised
    /\ call.before # {}
    /\ Len(call.result) = 2
    /\ call.texts[1] # call.texts[2]
    /\ call.embeddings[1] # call.embeddings[2]
    /\ Cardinality(index) = 3

(***************************************************************************)
(* Properties of the conversation history.                                 *)
(***************************************************************************)
MessagesOf(ms, conversation_id) ==
    LET Own(m) == m.conversation_id = conversation_id
    IN  SelectSeq(ms, Own)

\* the lines of the last m of the n messages of a conversation, oldest
\* first, m = min(n, 2 * depth)
RecentWindow(ms, conversation_id, depth) ==
    LET own == MessagesOf(ms, conversation_id)
        n == Len(own)
        m == Min(n, 2 * depth)
    IN  [i \in 1..m |->
            [role |-> IF own[n - m + i].role = "user" THEN "User" ELSE "Assistant",
             content |-> own[n - m + i].content]]

\* C23: the history injected into a turn on an existing conversation is
\* the min(n, 2 * max_conversation_history) most recently created messages
\* of that conversation, n being the number of its persisted messages,
\* rendered oldest first, and it contains no message of the turn being
\* answered.
C23_HistoryIsRecentWindow ==
    [][(/\ turn.pc = "idle"
        /\ turn'.generation_calls = 1
        /\ turn'.conversation_id \in DOMAIN conversations)
       => /\ turn'.history =
                RecentWindow(messages, turn'.conversation_id, max_conversation_history)
          /\ \A i \in 1..Len(turn'.history) :
                turn'.history[i].content \notin {Question, turn'.answer}]_vars

\* a completed batch turn on a conversation that held more messages than
\* the window takes
C23_Witness ==
    /\ turn.mode = "batch"
    /\ turn.pc = "completed"
    /\ turn.generation_calls = 1
    /\ turn.conversation_id = KnownConversation
    /\ Len(turn.history) = 2 * max_conversation_history
    /\ Len(MessagesOf(messages, KnownConversation)) > 2 * max_conversation_history + 2
    /\ turn.history[1].role = "User"

(***************************************************************************)
(* Properties of embed_one.                                                *)
(***************************************************************************)
FirstSuccess(attempts) ==
    CHOOSE k \in 1..StopAfterAttempt :
        attempts[k] /\ \A h \in 1..(k - 1) : ~attempts[h]

\* C24: one invocation of embed_one calls the provider at most 3 times; it
\* returns the result of the first successful attempt without further
\* calls, and when all 3 attempts fail it raises the failure of the last
\* attempt.
C24_AtMostThreeAttempts ==
    call.op = "generate_embedding" =>
        /\ call.calls <= 3
        /\ (\E k \in 1..3 : call.attempts[k]) =>
              /\ ~call.raised
              /\ call.result = EmbeddingOf(call.text)
              /\ call.calls = FirstSuccess(call.attempts)
        /\ (\A k \in 1..3 : ~call.attempts[k]) =>
              /\ call.raised
              /\ call.calls = 3
              /\ call.error = 3

\* three failed attempts where a fourth call would have succeeded
C24_Witness ==
    /\ call.op = "generate_embedding"
    /\ \A k \in 1..3 : ~call.attempts[k]
    /\ call.attempts[4]
    /\ call.raised
    /\ call.calls = 3

(***************************************************************************)
(* Properties of the order of the steps of one pipeline run.               *)
(***************************************************************************)
NoChunks == "No chunks created from document"

Moved(d, to) == task'[d].pc = to /\ task[d].pc # to

\* C25: a run whose chunking yields zero chunks fails at that point,
\* without an embedding call and without a write to the vector index; in
\* every run embedding starts only after chunking produced at least one
\* chunk, the index upsert only after embedding returned, and Chunk records
\* are added only after the upsert returned ids.
C25_StepsInOrder ==
    /\ [](\A d \in Docs :
            (task[d].error = NoChunks /\ task[d].pc \in {"failed", "raised", "given_up"}) =>
                /\ task[d].chunks_data = <<>>
                /\ task[d].embeddings = <<>>
                /\ task[d].chunk_ids = <<>>)
    /\ [][\A d \in Docs :
            /\ (task[d].pc = "chunk" /\ task'[d].pc # "chunk"
                   /\ task'[d].chunks_data = <<>>) =>
                   /\ task'[d].pc = "failed"
                   /\ task'[d].error = NoChunks
                   /\ index' = index
            /\ Moved(d, "embed") =>
                   /\ task[d].pc = "chunk"
                   /\ task'[d].chunks_data # <<>>
            /\ Moved(d, "upsert") =>
                   /\ task[d].pc = "embed"
                   /\ Len(task'[d].embeddings) = Len(task[d].chunks_data)
            /\ EntriesOf(index', d) # EntriesOf(index, d) =>
                   /\ task[d].pc = "upsert"
                   /\ task[d].embeddings # <<>>
            /\ Moved(d, "persist") =>
                   /\ task[d].pc = "upsert"
                   /\ task'[d].chunk_ids # <<>>
            /\ RowsIn(chunk_rows', d) # RowsIn(chunk_rows, d) =>
                   /\ task[d].pc = "persist"
                   /\ task[d].chunk_ids # <<>>
                   /\ \A r \in RowsIn(chunk_rows', d) \ RowsIn(chunk_rows, d) :
                         \E k \in 1..Len(task[d].chunk_ids) :
                             r.embedding_id = task[d].chunk_ids[k]]_vars

\* one document's run failed for want of chunks with nothing of it in the
\* index, while the run of another went through all its steps
C25_Witness ==
    \E d, e \in Docs :
        /\ task[d].error = NoChunks
        /\ task[d].pc = "raised"
        /\ EntriesOf(index, d) = {}
        /\ task[e].pc = "succeeded"
        /\ RowsIn(chunk_rows, e) # {}

(***************************************************************************)
(* Properties of retried and of concurrent pipeline runs.                  *)
(***************************************************************************)
\* the index entries of a document that no Chunk record references
Orphans(d) ==
    { e \in EntriesOf(index, d) : \A r \in chunk_rows : r.embedding_id # e.id }

FailedAfterUpsert(d) ==
    /\ task[d].pc = "failed"
    /\ task[d].error = "commit failed"
    /\ task[d].chunk_ids # <<>>

\* C26: the pipeline does not purge earlier entries before re-ingesting:
\* when a run fails after the index upsert and before the relational
\* commit, and the task is then retried successfully, the index holds
\* entries of the document that no Chunk record references, more entries
\* of the document than it has Chunk records.
C26_RetryLeavesOrphans ==
    [](\A d \in Docs :
          FailedAfterUpsert(d) =>
              [](task[d].pc = "succeeded" =>
                    /\ Orphans(d) # {}
                    /\ Cardinality(EntriesOf(index, d))
                          > Cardinality(RowsIn(chunk_rows, d))))

\* a run that succeeded on a retry, with twice the entries of its records
C26_Witness ==
    \E d \in Docs :
        /\ task[d].pc = "succeeded"
        /\ task[d].retries = 1
        /\ RowsIn(chunk_rows, d) # {}
        /\ Orphans(d) # {}
        /\ Cardinality(EntriesOf(index, d)) = 2 * Cardinality(RowsIn(chunk_rows, d))

\* chunk_index values contiguous from 0 without duplicates
ContiguousFromZero(rows) ==
    /\ \A r1, r2 \in rows : r1 # r2 => r1.chunk_index # r2.chunk_index
    /\ \A r \in rows : r.chunk_index \in 0..(Cardinality(rows) - 1)

\* task a wrote its index entries before task b wrote its own
UpsertedBefore(a, b) ==
    /\ task[a].chunk_ids # <<>>
    /\ task[b].chunk_ids # <<>>
    /\ task[a].chunk_ids[1].uuid < task[b].chunk_ids[1].uuid

\* C27: two runs for the same document that execute concurrently hold no
\* lock and can both commit: when a run that wrote its index entries
\* before the other did commits after the other has committed, the
\* document has two Chunk records with the same chunk_index and twice the
\* index entries, so its chunk_index values are not contiguous from 0
\* without duplicates.
C27_ConcurrentRunsBothCommit ==
    [][\A a, b \in Docs :
          (/\ a # b
           /\ task[a].document_id = task[b].document_id
           /\ task[b].pc = "succeeded"
           /\ task[a].pc = "persist"
           /\ UpsertedBefore(a, b)
           /\ task'[a].pc = "succeeded")
          => LET d == task[a].document_id
                 n == Len(task[a].chunks_data)
                 rows == RowsIn(chunk_rows', d)
             IN  /\ \E r1, r2 \in rows :
                       r1 # r2 /\ r1.chunk_index = r2.chunk_index
                 /\ Cardinality(rows) = 2 * n
                 /\ Cardinality(EntriesOf(index', d)) >= 2 * n
                 /\ ~ContiguousFromZero(rows)]_vars

\* both runs committed at their first try, the run that wrote to the index
\* first having committed: twice the records and twice the entries
C27_Witness ==
    \E a, b \in Docs :
        /\ a # b
        /\ task[a].document_id = task[b].document_id
        /\ task[a].pc = "succeeded" /\ task[b].pc = "succeeded"
        /\ task[a].retries = 0 /\ task[b].retries = 0
        /\ LET d == task[a].document_id
               n == Len(task[a].chunks_data)
           IN  /\ n > 0
               /\ Cardinality(RowsIn(chunk_rows, d)) = 2 * n
               /\ Cardinality(EntriesOf(index, d)) = 2 * n
               /\ ~ContiguousFromZero(RowsIn(chunk_rows, d))

(***************************************************************************)
(* Properties of delete_document beside a pipeline run.                    *)
(***************************************************************************)
\* C28: after delete_document has returned success for a document, the
\* vector index holds no entry of that document in any later state, also
\* when a run for the document is in flight during the deletion and
\* performs its index upsert after the purge.
C28_NoEntryAfterDelete ==
    \A d \in Docs :
        deletion[d] = "deleted" => EntriesOf(index, d) = {}

\* every Chunk record of the document names an entry of the index
Referenced(rows, idx, d) ==
    \A r \in RowsIn(rows, d) : \E e \in idx : e.id = r.embedding_id

\* C29: when delete_document ends with an error, the stored state is
\* unchanged: the document, its Chunk records and its index entries are
\* still present, so every Chunk record's embedding_id still names an
\* existing index entry.
C29_FailedDeleteChangesNothing ==
    [][\A d \in Docs :
          (deletion[d] # "failed" /\ deletion'[d] = "failed") =>
              /\ documents'[d].present
              /\ RowsIn(chunk_rows', d) = RowsIn(chunk_rows, d)
              /\ EntriesOf(index', d) = EntriesOf(index, d)
              /\ Referenced(chunk_rows', index', d)]_vars

(***************************************************************************)
(* Termination of the chunker.                                             *)
(***************************************************************************)
\* the loops compute what the entry points return
StepsAgree ==
    run.pc = "done" =>
        chunks = IF run.mode = "chunk_text"
                 THEN Returned(chunk_text(<<SourceMetadata>>, text, 1,
                                          chunk_size, chunk_overlap))
                 ELSE Returned(chunk_document_with_pages(<<SourceMetadata>>, pages, 1,
                                                         chunk_size, chunk_overlap))

\* C30: chunk_text and chunk_document_with_pages terminate for every input
\* text and every configuration, including chunk_overlap >= chunk_size.
C30_ChunkingTerminates == (run.pc # "idle") ~> (run.pc = "done")

\* a call over pages with chunk_overlap >= chunk_size that went through
\* the sentence loop and returned several chunks
C30_Witness ==
    /\ run.pc = "done"
    /\ run.mode = "chunk_document_with_pages"
    /\ chunk_overlap >= chunk_size
    /\ Len(run.sentences) >= 2
    /\ Len(chunks) >= 2
====
